---------------------------- MODULE Spec2Model ----------------------------
(***************************************************************************)
(* The iteration engine of EcosystemIntelligenceLoop                       *)
(* (src/src/codemetrics/intelligence_loop.py): the success score of a      *)
(* test-results map, the ranking of iteration results, and the             *)
(* branch-per-candidate loop of run_iterative_improvements.                *)
(*                                                                         *)
(* The methods keep no state on the object between calls, so a behaviour   *)
(* is one call on a freshly constructed object: _calculate_success_score   *)
(* or evaluate_iterations on an input drawn from a bounded set, or one run *)
(* of run_iterative_improvements against a git repository whose commands   *)
(* and whose test subprocess may fail.                                     *)
(*                                                                         *)
(* The optimization modules (src/src/codemetrics/modules/optimization)     *)
(* follow the engine, each with its own next-state relation over the same  *)
(* initial state: the business rules (RulesSpec), OptimizationPattern      *)
(* (PatternSpec), the two audit trails (AuditSpec) and the error handler   *)
(* (ErrorSpec).                                                            *)
(*                                                                         *)
(* Python floats are modelled as exact rationals <<numerator,              *)
(* denominator>> in lowest terms: the scores the code computes are sums of *)
(* a pass rate and multiples of 0.1 and 0.2, whose rounding error (about   *)
(* 1e-16) never changes a comparison made here.                            *)
(***************************************************************************)
EXTENDS Integers, Sequences, FiniteSets, TLC

VARIABLES
    pc,                 \* position of the call in progress
    op,                 \* the method that was called ("none" before the call)
    test_results,       \* the test-results map in hand
    success_score,      \* the score computed from test_results
    iteration_results,  \* run_iterative_improvements: the list being built;
                        \* evaluate_iterations: its argument
    best_improvements,  \* the list evaluate_iterations returned
    candidates,         \* number of candidates passed to the run
    i,                  \* iteration_num of the iteration in progress (i+1 of the loop)
    head,               \* the branch checked out: 0 the original, k iteration k's
    branches,           \* the scratch branches that exist
    attempts,           \* per iteration, the outcome of each of its steps
    faults,             \* failures injected so far
    working_tree,       \* the iterations whose uncommitted changes are in the
                        \* working tree of the repository
    exception,          \* the exception raised to the caller ("none" if none)
    arg,                \* the argument of a call on one of the optimization modules
    ret,                \* what that call returned
    now,                \* datetime.now() at the time of the call
    audit_entries,      \* DatabaseAuditTrail.audit_entries of the live instance
    storage,            \* the files <storage_path>/<request_id>.json
    audit_file,         \* the lines of audit_trail.jsonl
    calls,              \* the log calls made so far, in order
    prev,               \* the preceding call, when it was get_audit_history
    instances,          \* DatabaseAuditTrail instances created on the directory
    error_history,      \* ErrorHandler.error_history
    invocations,        \* calls of the function wrapped by handle_optimization_errors
    recovered,          \* what attempt_recovery returned ("none" before it)
    _active_optimizations,  \* OptimizationEngine._active_optimizations
    optimize_request,   \* the request optimize_ecosystem was called with
    filtered_patterns,  \* feedback_analysis.patterns
    iteration,          \* optimize_ecosystem: passes of the loop made so far
    optimization_results,   \* optimize_ecosystem: the list of the same name
    success_count,      \* optimize_ecosystem: the counter of the same name
    failure_count,      \* optimize_ecosystem: the counter of the same name
    outcomes,           \* per pass of the loop, what the collaborators did
    raised_error        \* optimize_ecosystem: str(e) of the exception in flight

\* the variables of the optimization modules, which the iteration engine
\* never touches
audit_vars == <<audit_entries, storage, audit_file, calls, prev, instances>>

error_vars == <<error_history, invocations, recovered>>

optimize_vars == <<_active_optimizations, optimize_request, filtered_patterns,
                   iteration, optimization_results, success_count,
                   failure_count, outcomes, raised_error>>

module_vars == <<arg, ret, now, audit_vars, error_vars, optimize_vars>>

\* the variables of the iteration engine
engine_vars == <<test_results, success_score, iteration_results,
                 best_improvements, candidates, i, head, branches, attempts,
                 faults, working_tree, exception>>

vars == <<pc, op, engine_vars, module_vars>>

---------------------------------------------------------------------------
(* Bounds of the model *)

\* tests_passed and tests_failed range over 0..MaxTests
MaxTests == 8
\* errors_fixed and new_errors range over 0..MaxErrors
MaxErrors == 4
\* evaluate_iterations is applied to lists of at most MaxResults results
MaxResults == 4
\* a run is given at most MaxCandidates candidates
MaxCandidates == 11
\* at most MaxFaults steps of a run fail
MaxFaults == 1

(* Program constants *)

\* self.max_iterations = 10
max_iterations == 10
\* best_count = min(3, len(successful_iterations))
TopCount == 3
\* test_results["tests_passed"] = 10 on exit code 0
SimulatedPassed == 10
\* test_results["errors_fixed"] = 2 on exit code 0
SimulatedFixed == 2
\* test_results["tests_failed"] = 3 on a non-zero exit code
SimulatedFailed == 3

---------------------------------------------------------------------------
(* Rationals *)

Min(a, b) == IF a <= b THEN a ELSE b
Max(a, b) == IF a >= b THEN a ELSE b
Abs(a) == IF a < 0 THEN -a ELSE a

RECURSIVE GCD(_, _)
GCD(a, b) == IF b = 0 THEN a ELSE GCD(b, a % b)

\* n/d in lowest terms with a positive denominator (d # 0)
Rat(n, d) ==
    LET s == IF d < 0 THEN -1 ELSE 1
        g == GCD(Abs(n), Abs(d))
    IN  <<(s * n) \div g, (s * d) \div g>>

RAdd(a, b) == Rat(a[1] * b[2] + b[1] * a[2], a[2] * b[2])
RSub(a, b) == Rat(a[1] * b[2] - b[1] * a[2], a[2] * b[2])
RLe(a, b) == a[1] * b[2] <= b[1] * a[2]
RLt(a, b) == a[1] * b[2] < b[1] * a[2]
RMin(a, b) == IF RLe(a, b) THEN a ELSE b
RMax(a, b) == IF RLe(b, a) THEN a ELSE b

Zero == <<0, 1>>
Half == <<1, 2>>
One == <<1, 1>>

---------------------------------------------------------------------------
(* Test-results maps: Python dicts, a key being present or absent *)

EmptyMap == [k \in {} |-> 0]

\* dict.get(key, default)
Get(m, key, default) == IF key \in DOMAIN m THEN m[key] ELSE default

\* bool(test_results.get("error")): None and the empty string are falsy
ErrorTruthy(m) == "error" \in DOMAIN m /\ m["error"] # ""

\* the value -1 (for "error", the string "<absent>") stands for "key absent"
\* while the maps are enumerated; no map holds it
Entry(key, v, absent) == IF v = absent THEN EmptyMap ELSE key :> v

ErrorValues == {"", "Test failed"}

TestResultsMaps ==
    { Entry("error", e, "<absent>") @@ Entry("tests_passed", p, -1)
        @@ Entry("tests_failed", f, -1) @@ Entry("errors_fixed", x, -1)
        @@ Entry("new_errors", n, -1) :
        e \in ErrorValues \cup {"<absent>"},
        p \in -1..MaxTests, f \in -1..MaxTests,
        x \in -1..MaxErrors, n \in -1..MaxErrors }

---------------------------------------------------------------------------
(* _calculate_success_score *)

\* the score before the final max(0.0, min(1.0, ...))
RawScore(tr) ==
    LET passed == Get(tr, "tests_passed", 0)
        failed == Get(tr, "tests_failed", 0)
        errors_fixed == Get(tr, "errors_fixed", 0)
        new_errors == Get(tr, "new_errors", 0)
    IN  RSub(RAdd(Rat(passed, passed + failed),
                  RMin(Rat(errors_fixed, 10), Rat(3, 10))),
             RMin(Rat(new_errors * 2, 10), Rat(5, 10)))

\* mutant: the result is not clamped to [0, 1]
calculate_success_score_unclamped(tr) ==
    IF ErrorTruthy(tr) THEN Zero
    ELSE IF Get(tr, "tests_passed", 0) + Get(tr, "tests_failed", 0) = 0 THEN Half
    ELSE RawScore(tr)

\* mutant: the fix bonus is not capped at 0.3
calculate_success_score_uncapped_bonus(tr) ==
    IF ErrorTruthy(tr) THEN Zero
    ELSE
        LET passed == Get(tr, "tests_passed", 0)
            failed == Get(tr, "tests_failed", 0)
        IN  IF passed + failed = 0 THEN Half
            ELSE RMax(Zero,
                      RMin(One,
                           RSub(RAdd(Rat(passed, passed + failed),
                                     Rat(Get(tr, "errors_fixed", 0), 10)),
                                RMin(Rat(Get(tr, "new_errors", 0) * 2, 10),
                                     Rat(5, 10)))))

\* mutant: with no tests run, 0.5 is the pass rate, to which the bonus and
\* the penalty are applied
calculate_success_score_neutral_pass_rate(tr) ==
    IF ErrorTruthy(tr) THEN Zero
    ELSE
        LET passed == Get(tr, "tests_passed", 0)
            failed == Get(tr, "tests_failed", 0)
            test_score ==
                IF passed + failed = 0 THEN Half ELSE Rat(passed, passed + failed)
        IN  RMax(Zero,
                 RMin(One,
                      RSub(RAdd(test_score,
                                RMin(Rat(Get(tr, "errors_fixed", 0), 10),
                                     Rat(3, 10))),
                           RMin(Rat(Get(tr, "new_errors", 0) * 2, 10),
                                Rat(5, 10)))))

_calculate_success_score(tr) ==
    IF ErrorTruthy(tr) THEN Zero
    ELSE
        LET passed == Get(tr, "tests_passed", 0)
            failed == Get(tr, "tests_failed", 0)
            errors_fixed == Get(tr, "errors_fixed", 0)
            new_errors == Get(tr, "new_errors", 0)
            total_tests == passed + failed
        IN  IF total_tests = 0 THEN Half
            ELSE
                LET test_score == Rat(passed, total_tests)
                    fix_bonus == RMin(Rat(errors_fixed, 10), Rat(3, 10))
                    error_penalty == RMin(Rat(new_errors * 2, 10), Rat(5, 10))
                IN  RMax(Zero,
                         RMin(One, RSub(RAdd(test_score, fix_bonus), error_penalty)))


---------------------------------------------------------------------------
(* IterationResult, without its timestamp and performance metrics *)

\* the IterationResult of the normal path of _test_improvement_iteration;
\* the branch name embeds the iteration number, which stands for it
IterationResult(iteration_num, tr, score) ==
    [ iteration_id |-> iteration_num,
      improvement_candidate |-> iteration_num,
      branch_name |-> iteration_num,
      test_results |-> tr,
      success_score |-> score,
      errors_fixed |-> Get(tr, "errors_fixed", 0),
      new_errors_introduced |-> Get(tr, "new_errors", 0) ]

\* mutant: the except branch does not record the error
ErrorResult_without_error(iteration_num, message) ==
    [ iteration_id |-> iteration_num,
      improvement_candidate |-> iteration_num,
      branch_name |-> iteration_num,
      test_results |-> EmptyMap,
      success_score |-> Zero,
      errors_fixed |-> 0,
      new_errors_introduced |-> 1 ]

\* the IterationResult of the except branch of _test_improvement_iteration
ErrorResult(iteration_num, message) ==
    [ iteration_id |-> iteration_num,
      improvement_candidate |-> iteration_num,
      branch_name |-> iteration_num,
      test_results |-> ("error" :> message),
      success_score |-> Zero,
      errors_fixed |-> 0,
      new_errors_introduced |-> 1 ]

---------------------------------------------------------------------------
(* evaluate_iterations *)

\* mutant: the sort is ascending (reverse=True left out)
RECURSIVE InsertAscending(_, _)
InsertAscending(r, s) ==
    IF s = <<>> THEN <<r>>
    ELSE IF RLt(r.success_score, Head(s).success_score) THEN <<r>> \o s
    ELSE <<Head(s)>> \o InsertAscending(r, Tail(s))

\* r for r in iteration_results if r.success_score > 0.0
SuccessfulIterations(results) ==
    SelectSeq(results, LAMBDA r : RLt(Zero, r.success_score))

\* list.sort(key=success_score, reverse=True) is stable: results of equal
\* score keep their order
RECURSIVE InsertDescending(_, _)
InsertDescending(r, s) ==
    IF s = <<>> THEN <<r>>
    ELSE IF RLt(Head(s).success_score, r.success_score) THEN <<r>> \o s
    ELSE <<Head(s)>> \o InsertDescending(r, Tail(s))

RECURSIVE SortDescending(_)
SortDescending(s) ==
    IF s = <<>> THEN <<>>
    ELSE InsertDescending(s[Len(s)], SortDescending(SubSeq(s, 1, Len(s) - 1)))

evaluate_iterations(results) ==
    LET successful_iterations == SortDescending(SuccessfulIterations(results))
        best_count == Min(TopCount, Len(successful_iterations))
    IN  SubSeq(successful_iterations, 1, best_count)

---------------------------------------------------------------------------
(* _run_improvement_tests: the map it returns for each outcome of the     *)
(* pytest subprocess                                                       *)

TestOutcomes == {"exit0", "nonzero", "timeout", "exception"}

\* dict[key] = value
Put(m, key, value) == (key :> value) @@ m

InitialTestResults ==
    ("tests_passed" :> 0) @@ ("tests_failed" :> 0)
        @@ ("errors_fixed" :> 0) @@ ("new_errors" :> 0)

\* str(e) of an exception raised by subprocess.run; it may be empty
ExceptionMessages == {"", "No such file or directory"}

\* mutant: a timeout is recorded like a run without tests
_run_improvement_tests_timeout_unrecorded(outcome, message) ==
    IF outcome = "exit0"
    THEN Put(Put(InitialTestResults, "tests_passed", SimulatedPassed),
             "errors_fixed", SimulatedFixed)
    ELSE InitialTestResults

_run_improvement_tests(outcome, message) ==
    CASE outcome = "exit0" ->
            Put(Put(InitialTestResults, "tests_passed", SimulatedPassed),
                "errors_fixed", SimulatedFixed)
      [] outcome = "nonzero" ->
            Put(Put(InitialTestResults, "tests_failed", SimulatedFailed),
                "new_errors", 1)
      [] outcome = "timeout" ->
            Put(Put(Put(InitialTestResults, "error", "Tests timed out"),
                    "tests_failed", 1), "new_errors", 1)
      [] outcome = "exception" ->
            Put(Put(Put(InitialTestResults, "error", message),
                    "tests_failed", 1), "new_errors", 1)

---------------------------------------------------------------------------
(* State *)

\* the steps of one iteration, none of them attempted yet
NoAttempt ==
    [ branch |-> "none", apply |-> "none", tests |-> "none",
      checkout |-> "none", delete |-> "none" ]

Init ==
    /\ pc = "idle"
    /\ op = "none"
    /\ test_results = EmptyMap
    /\ success_score = Zero
    /\ iteration_results = <<>>
    /\ best_improvements = <<>>
    /\ candidates = 0
    /\ i = 0
    /\ head = 0
    /\ branches = {}
    /\ attempts = <<>>
    /\ faults = 0
    /\ working_tree = {}
    /\ exception = "none"
    /\ arg = <<>>
    /\ ret = <<>>
    /\ now = 0
    /\ audit_entries = EmptyMap
    /\ storage = EmptyMap
    /\ audit_file = <<>>
    /\ calls = <<>>
    /\ prev = [request_id |-> "", database |-> <<>>, file |-> <<>>,
               in_memory |-> FALSE]
    /\ instances = 0
    /\ error_history = <<>>
    /\ invocations = 0
    /\ recovered = "none"
    /\ _active_optimizations = EmptyMap
    /\ optimize_request = [request_id |-> "", max_iterations |-> 0]
    /\ filtered_patterns = <<>>
    /\ iteration = 0
    /\ optimization_results = <<>>
    /\ success_count = 0
    /\ failure_count = 0
    /\ outcomes = <<>>
    /\ raised_error = "none"

\* a step of the run fails: git, the file system or the test subprocess
Fault == faults < MaxFaults /\ faults' = faults + 1

---------------------------------------------------------------------------
(* Calls of the pure methods *)

call_calculate_success_score ==
    /\ pc = "idle"
    /\ \E tr \in TestResultsMaps :
        /\ test_results' = tr
        /\ success_score' = _calculate_success_score(tr)
    /\ op' = "_calculate_success_score"
    /\ pc' = "returned"
    /\ UNCHANGED <<iteration_results, best_improvements, candidates, i, head,
                   branches, attempts, faults>>
    /\ UNCHANGED <<working_tree, exception, module_vars>>

ScoreValues == {Zero, Half, Rat(7, 10), Rat(9, 10), One}

call_evaluate_iterations ==
    /\ pc = "idle"
    /\ \E n \in 0..MaxResults :
        \E scores \in [1..n -> ScoreValues] :
            LET results == [k \in 1..n |-> IterationResult(k, EmptyMap, scores[k])]
            IN  /\ iteration_results' = results
                /\ best_improvements' = evaluate_iterations(results)
    /\ op' = "evaluate_iterations"
    /\ pc' = "returned"
    /\ UNCHANGED <<test_results, success_score, candidates, i, head, branches,
                   attempts, faults>>
    /\ UNCHANGED <<working_tree, exception, module_vars>>

---------------------------------------------------------------------------
(* run_iterative_improvements *)

\* candidates[:self.max_iterations]
IterationCount(n) == Min(n, max_iterations)

SetAttempt(step, outcome) == attempts' = [attempts EXCEPT ![i][step] = outcome]

call_run_iterative_improvements ==
    /\ pc = "idle"
    /\ \E n \in 0..MaxCandidates : candidates' = n
    /\ op' = "run_iterative_improvements"
    /\ pc' = "open_repo"
    /\ UNCHANGED <<test_results, success_score, iteration_results,
                   best_improvements, i, head, branches, attempts, faults>>
    /\ UNCHANGED <<working_tree, exception, module_vars>>

\* repo = git.Repo(repo_path); original_branch = repo.active_branch.name
OpenRepo ==
    /\ pc = "open_repo"
    /\ pc' = "loop"
    /\ UNCHANGED <<op, test_results, success_score, iteration_results,
                   best_improvements, candidates, i, head, branches, attempts,
                   faults>>
    /\ UNCHANGED <<working_tree, exception, module_vars>>

\* the repository cannot be opened, or has no active branch: outside the
\* try, so the exception leaves run_iterative_improvements
OpenRepoFails ==
    /\ pc = "open_repo"
    /\ Fault
    /\ exception' = "git.Repo failed"
    /\ pc' = "raised"
    /\ UNCHANGED <<op, test_results, success_score, iteration_results,
                   best_improvements, candidates, i, head, branches, attempts>>
    /\ UNCHANGED <<working_tree, module_vars>>

\* the head of the for loop: the next candidate, or the return
NextCandidate ==
    /\ pc = "loop"
    /\ i < IterationCount(candidates)
    /\ i' = i + 1
    /\ attempts' = Append(attempts, NoAttempt)
    /\ test_results' = EmptyMap
    /\ success_score' = Zero
    /\ pc' = "create_branch"
    /\ UNCHANGED <<op, iteration_results, best_improvements, candidates, head,
                   branches, faults>>
    /\ UNCHANGED <<working_tree, exception, module_vars>>

ReturnResults ==
    /\ pc = "loop"
    /\ ~(i < IterationCount(candidates))
    /\ pc' = "done"
    /\ UNCHANGED <<op, test_results, success_score, iteration_results,
                   best_improvements, candidates, i, head, branches, attempts,
                   faults>>
    /\ UNCHANGED <<working_tree, exception, module_vars>>

\* mutant: the exception of a failed branch creation is not caught in
\* _test_improvement_iteration and ends the loop
CreateBranchFails_uncaught ==
    /\ pc = "create_branch"
    /\ Fault
    /\ SetAttempt("branch", "failed")
    /\ pc' = "recover"
    /\ UNCHANGED <<op, test_results, success_score, iteration_results,
                   best_improvements, candidates, i, head, branches>>
    /\ UNCHANGED <<working_tree, exception, module_vars>>

\* repo.git.checkout('-b', branch_name)
CreateBranch ==
    /\ pc = "create_branch"
    /\ head' = i
    /\ branches' = branches \cup {i}
    /\ SetAttempt("branch", "ok")
    /\ pc' = "apply"
    /\ UNCHANGED <<op, test_results, success_score, iteration_results,
                   best_improvements, candidates, i, faults>>
    /\ UNCHANGED <<working_tree, exception, module_vars>>

\* the checkout raises: the except branch of _test_improvement_iteration
\* returns the error result, which the loop appends
CreateBranchFails ==
    /\ pc = "create_branch"
    /\ Fault
    /\ test_results' = ("error" :> "git checkout failed")
    /\ iteration_results' =
            Append(iteration_results, ErrorResult(i, "git checkout failed"))
    /\ SetAttempt("branch", "failed")
    /\ pc' = "checkout"
    /\ UNCHANGED <<op, success_score, best_improvements, candidates, i, head,
                   branches>>
    /\ UNCHANGED <<working_tree, exception, module_vars>>

\* changes_applied = self._apply_code_changes(...): True
ApplyCodeChanges ==
    /\ pc = "apply"
    /\ working_tree' = working_tree \cup {i}
    /\ SetAttempt("apply", "ok")
    /\ pc' = "test"
    /\ UNCHANGED <<op, test_results, success_score, iteration_results,
                   best_improvements, candidates, i, head, branches, faults>>
    /\ UNCHANGED <<exception, module_vars>>

\* _apply_code_changes catches its exception and returns False; the caller
\* does not read changes_applied
ApplyCodeChangesFails ==
    /\ pc = "apply"
    /\ Fault
    /\ \E written \in SUBSET {i} : working_tree' = working_tree \cup written
    /\ SetAttempt("apply", "failed")
    /\ pc' = "test"
    /\ UNCHANGED <<op, test_results, success_score, iteration_results,
                   best_improvements, candidates, i, head, branches>>
    /\ UNCHANGED <<exception, module_vars>>

\* test_results = await self._run_improvement_tests(repo.working_dir)
RunImprovementTests ==
    /\ pc = "test"
    /\ test_results' = _run_improvement_tests("exit0", "")
    /\ SetAttempt("tests", "exit0")
    /\ pc' = "score"
    /\ UNCHANGED <<op, success_score, iteration_results, best_improvements,
                   candidates, i, head, branches, faults>>
    /\ UNCHANGED <<working_tree, exception, module_vars>>

\* the subprocess exits non-zero, times out or cannot be run
RunImprovementTestsFails ==
    /\ pc = "test"
    /\ Fault
    /\ \E outcome \in TestOutcomes \ {"exit0"} :
        \E message \in IF outcome = "exception" THEN ExceptionMessages ELSE {""} :
            /\ test_results' = _run_improvement_tests(outcome, message)
            /\ SetAttempt("tests", outcome)
    /\ pc' = "score"
    /\ UNCHANGED <<op, success_score, iteration_results, best_improvements,
                   candidates, i, head, branches>>
    /\ UNCHANGED <<working_tree, exception, module_vars>>

\* success_score = self._calculate_success_score(test_results); the
\* IterationResult is returned and appended to iteration_results
ScoreIteration ==
    /\ pc = "score"
    /\ success_score' = _calculate_success_score(test_results)
    /\ iteration_results' =
            Append(iteration_results,
                   IterationResult(i, test_results,
                                   _calculate_success_score(test_results)))
    /\ pc' = "checkout"
    /\ UNCHANGED <<op, test_results, best_improvements, candidates, i, head,
                   branches, attempts, faults>>
    /\ UNCHANGED <<working_tree, exception, module_vars>>

\* mutant: the failed checkout is escalated to the caller
CheckoutOriginalFails_escalated ==
    /\ pc = "checkout"
    /\ Fault
    /\ SetAttempt("checkout", "failed")
    /\ pc' = "raised"
    /\ UNCHANGED <<op, test_results, success_score, iteration_results,
                   best_improvements, candidates, i, head, branches>>
    /\ UNCHANGED <<working_tree, exception, module_vars>>

\* repo.git.checkout(original_branch)
CheckoutOriginal ==
    /\ pc = "checkout"
    /\ head' = 0
    /\ SetAttempt("checkout", "ok")
    /\ pc' = "delete"
    /\ UNCHANGED <<op, test_results, success_score, iteration_results,
                   best_improvements, candidates, i, branches, faults>>
    /\ UNCHANGED <<working_tree, exception, module_vars>>

\* the checkout raises inside the for loop: control leaves the loop for the
\* except branch of run_iterative_improvements
CheckoutOriginalFails ==
    /\ pc = "checkout"
    /\ Fault
    /\ SetAttempt("checkout", "failed")
    /\ pc' = "recover"
    /\ UNCHANGED <<op, test_results, success_score, iteration_results,
                   best_improvements, candidates, i, head, branches>>
    /\ UNCHANGED <<working_tree, exception, module_vars>>

\* mutant: the failed deletion is not swallowed and ends the loop
DeleteBranchFails_uncaught ==
    /\ pc = "delete"
    /\ IF i \in branches THEN Fault ELSE faults' = faults
    /\ SetAttempt("delete", "failed")
    /\ pc' = "recover"
    /\ UNCHANGED <<op, test_results, success_score, iteration_results,
                   best_improvements, candidates, i, head, branches>>
    /\ UNCHANGED <<working_tree, exception, module_vars>>

\* repo.git.branch('-D', result.branch_name)
DeleteBranch ==
    /\ pc = "delete"
    /\ i \in branches
    /\ head # i
    /\ branches' = branches \ {i}
    /\ SetAttempt("delete", "ok")
    /\ pc' = "loop"
    /\ UNCHANGED <<op, test_results, success_score, iteration_results,
                   best_improvements, candidates, i, head, faults>>
    /\ UNCHANGED <<working_tree, exception, module_vars>>

\* the deletion raises (always when the branch was never created): except: pass
DeleteBranchFails ==
    /\ pc = "delete"
    /\ IF i \in branches THEN Fault ELSE faults' = faults
    /\ SetAttempt("delete", "failed")
    /\ pc' = "loop"
    /\ UNCHANGED <<op, test_results, success_score, iteration_results,
                   best_improvements, candidates, i, head, branches>>
    /\ UNCHANGED <<working_tree, exception, module_vars>>

\* except Exception: try: repo.git.checkout(original_branch)
RecoverCheckout ==
    /\ pc = "recover"
    /\ head' = 0
    /\ pc' = "done"
    /\ UNCHANGED <<op, test_results, success_score, iteration_results,
                   best_improvements, candidates, i, branches, attempts, faults>>
    /\ UNCHANGED <<working_tree, exception, module_vars>>

\* ... except: pass. The checkout that has just failed may fail again: the
\* repeated failure is the same fault, not a new one
RecoverCheckoutFails ==
    /\ pc = "recover"
    /\ pc' = "done"
    /\ UNCHANGED <<op, test_results, success_score, iteration_results,
                   best_improvements, candidates, i, head, branches, attempts,
                   faults>>
    /\ UNCHANGED <<working_tree, exception, module_vars>>

---------------------------------------------------------------------------

Next ==
    \/ call_calculate_success_score
    \/ call_evaluate_iterations
    \/ call_run_iterative_improvements
    \/ OpenRepo
    \/ OpenRepoFails
    \/ NextCandidate
    \/ ReturnResults
    \/ CreateBranch
    \/ CreateBranchFails
    \/ ApplyCodeChanges
    \/ ApplyCodeChangesFails
    \/ RunImprovementTests
    \/ RunImprovementTestsFails
    \/ ScoreIteration
    \/ CheckoutOriginal
    \/ CheckoutOriginalFails
    \/ DeleteBranch
    \/ DeleteBranchFails
    \/ RecoverCheckout
    \/ RecoverCheckoutFails

Spec == Init /\ [][Next]_vars

---------------------------------------------------------------------------
(* Properties *)

Range(s) == { s[k] : k \in 1..Len(s) }

Scored == op = "_calculate_success_score" /\ pc = "returned"
Evaluated == op = "evaluate_iterations" /\ pc = "returned"
Running == op = "run_iterative_improvements"
Returned == Running /\ pc = "done"

NoErrorKey(tr) == "error" \notin DOMAIN tr
TestsRun(tr) == Get(tr, "tests_passed", 0) + Get(tr, "tests_failed", 0)

InUnitInterval(score) == RLe(Zero, score) /\ RLe(score, One)

\* C1: every success score lies in [0, 1]: the score _calculate_success_score
\* returns for any map with non-negative counts, and the score of every
\* IterationResult a run produces, on the normal and on the exception path.
C1_ScoreInUnitInterval ==
    /\ Scored => InUnitInterval(success_score)
    /\ Running =>
        \A k \in 1..Len(iteration_results) :
            InUnitInterval(iteration_results[k].success_score)

\* C1 witness: a map whose pass rate plus bonus exceeds 1 was scored 1.
C1_Witness ==
    /\ Scored
    /\ NoErrorKey(test_results)
    /\ TestsRun(test_results) > 0
    /\ RLt(One, RawScore(test_results))
    /\ success_score = One

\* score = clamp(0, 1, rate + min(0.1 * errors_fixed, 0.3)
\*                          - min(0.2 * new_errors, 0.5)),
\* for rate = num/den, stated over the integers: both sides times 10 * den
IsClampedSum(score, num, den, tr) ==
    LET bonus == Min(Get(tr, "errors_fixed", 0), 3)
        penalty == Min(2 * Get(tr, "new_errors", 0), 5)
        raw == 10 * num + den * (bonus - penalty)
        clamped == Max(0, Min(10 * den, raw))
    IN  score[1] * 10 * den = clamped * score[2]

\* C2 as stated: for every map without a recorded error the score is
\* clamp(0, 1, pass_rate + fix_bonus - error_penalty), the pass rate being
\* passed/(passed+failed), and 0.5 when no tests ran.
C2_Original ==
    (Scored /\ NoErrorKey(test_results)) =>
        IF TestsRun(test_results) = 0
        THEN IsClampedSum(success_score, 1, 2, test_results)
        ELSE IsClampedSum(success_score, Get(test_results, "tests_passed", 0),
                          TestsRun(test_results), test_results)

\* C2 amended: for every map without a recorded error in which at least one
\* test ran the score is clamp(0, 1, passed/(passed+failed) + fix_bonus -
\* error_penalty); when no tests ran it is 0.5, no bonus or penalty applied.
C2_ScoreFormula ==
    (Scored /\ NoErrorKey(test_results)) =>
        IF TestsRun(test_results) = 0
        THEN success_score = Half
        ELSE IsClampedSum(success_score, Get(test_results, "tests_passed", 0),
                          TestsRun(test_results), test_results)

\* C2 witness: passed=8, failed=2, errors_fixed=3, new_errors=1 scored 0.9.
C2_Witness ==
    /\ Scored
    /\ test_results = ("tests_passed" :> 8) @@ ("tests_failed" :> 2)
                        @@ ("errors_fixed" :> 3) @@ ("new_errors" :> 1)
    /\ success_score = <<9, 10>>

\* C3 as stated: a map whose error key is set scores exactly 0.0, whatever
\* its counts.
C3_RecordedErrorScoresZero ==
    (Scored /\ ~NoErrorKey(test_results)) => success_score = Zero

\* C4: a map without a recorded error in which no tests were executed
\* (tests_passed + tests_failed = 0) scores exactly 0.5.
C4_NoTestsScoresHalf ==
    (Scored /\ NoErrorKey(test_results) /\ TestsRun(test_results) = 0)
        => success_score = Half

\* C4 witness: no tests ran, errors were fixed and introduced, the score is 0.5.
C4_Witness ==
    /\ Scored
    /\ NoErrorKey(test_results)
    /\ {"tests_passed", "tests_failed"} \subseteq DOMAIN test_results
    /\ TestsRun(test_results) = 0
    /\ Get(test_results, "errors_fixed", 0) = 2
    /\ Get(test_results, "new_errors", 0) = 0
    /\ success_score = Half

ZeroScoreExplained(tr, score) ==
    score = Zero => (~NoErrorKey(tr) \/ Get(tr, "tests_failed", 0) > 0)

\* C5: a score of 0 always comes with a recorded error or a failed test: for
\* every scored map and every IterationResult of a run, success_score = 0
\* implies that test_results holds an error or has tests_failed > 0.
C5_ZeroScoreHasErrorOrFailure ==
    /\ Scored => ZeroScoreExplained(test_results, success_score)
    /\ Running =>
        \A k \in 1..Len(iteration_results) :
            ZeroScoreExplained(iteration_results[k].test_results,
                               iteration_results[k].success_score)

\* C5 witness: a run holds a zero-score result of a failed test run, which
\* records no error, after a result of a passing one.
C5_Witness ==
    /\ Running
    /\ \E k \in 2..Len(iteration_results) :
        /\ iteration_results[k].success_score = Zero
        /\ NoErrorKey(iteration_results[k].test_results)
        /\ Get(iteration_results[k].test_results, "tests_failed", 0) > 0
        /\ iteration_results[k - 1].success_score = One

Positive(r) == RLt(Zero, r.success_score)

\* C6: evaluate_iterations returns only results of its argument with a score
\* above 0, each once, in descending order of score, the 3 best of them (all
\* of them when fewer): no positive result left out scores higher than a
\* returned one.
C6_BestImprovements ==
    Evaluated =>
        /\ \A k \in 1..Len(best_improvements) :
            /\ best_improvements[k] \in Range(iteration_results)
            /\ Positive(best_improvements[k])
        /\ \A j, k \in 1..Len(best_improvements) :
            j < k =>
                /\ best_improvements[j] # best_improvements[k]
                /\ RLe(best_improvements[k].success_score,
                       best_improvements[j].success_score)
        /\ Len(best_improvements) =
            Min(3, Cardinality({ k \in 1..Len(iteration_results) :
                                    Positive(iteration_results[k]) }))
        /\ \A r \in Range(iteration_results) :
            (Positive(r) /\ r \notin Range(best_improvements)) =>
                \A k \in 1..Len(best_improvements) :
                    RLe(r.success_score, best_improvements[k].success_score)

\* C6 witness: the scores [0.7, 0.9, 0.0] returned [0.9, 0.7].
C6_Witness ==
    /\ Evaluated
    /\ Len(iteration_results) = 3
    /\ iteration_results[1].success_score = <<7, 10>>
    /\ iteration_results[2].success_score = <<9, 10>>
    /\ iteration_results[3].success_score = Zero
    /\ best_improvements = <<iteration_results[2], iteration_results[1]>>

\* C7 as stated: when branch creation, change application or test execution
\* fails in an iteration, its IterationResult has success_score 0.0 and
\* new_errors_introduced 1.
C7_FailedStepGivesErrorResult ==
    Running =>
        \A k \in 1..Len(iteration_results) :
            (\/ attempts[k].branch = "failed"
             \/ attempts[k].apply = "failed"
             \/ attempts[k].tests \in {"timeout", "exception"})
                => /\ iteration_results[k].success_score = Zero
                   /\ iteration_results[k].new_errors_introduced = 1

NoCheckoutFailed == \A k \in 1..Len(attempts) : attempts[k].checkout # "failed"

InCandidateOrder ==
    \A k \in 1..Len(iteration_results) :
        /\ iteration_results[k].iteration_id = k
        /\ iteration_results[k].improvement_candidate = k

\* C8 as stated: the run returns exactly one IterationResult for each of the
\* first max_iterations candidates, in candidate order.
C8_Original ==
    Returned =>
        /\ Len(iteration_results) = Min(candidates, max_iterations)
        /\ InCandidateOrder

\* C8 amended: a failing iteration does not abort the remaining ones: the
\* run returns one IterationResult per candidate, in candidate order, for
\* the first max_iterations candidates when every checkout of the original
\* branch succeeds, and otherwise for the candidates up to and including the
\* one after whose iteration that checkout failed.
C8_OneResultPerCandidate ==
    Returned =>
        /\ InCandidateOrder
        /\ NoCheckoutFailed =>
                Len(iteration_results) = Min(candidates, max_iterations)
        /\ \A k \in 1..Len(attempts) :
                attempts[k].checkout = "failed" => Len(iteration_results) = k

\* C8 witness: 11 candidates, the first iteration ended in error, and the
\* run returned 10 results, the last one of a passing iteration.
C8_Witness ==
    /\ Returned
    /\ candidates = 11
    /\ Len(iteration_results) = 10
    /\ attempts[1].branch = "failed"
    /\ iteration_results[1].success_score = Zero
    /\ iteration_results[10].success_score = One

\* C9 as stated: after a failed checkout of the original branch the run does
\* not raise and the remaining candidates are still iterated, each producing
\* its IterationResult.
C9_Original ==
    (Running /\ ~NoCheckoutFailed) =>
        /\ pc # "raised"
        /\ pc = "done" =>
                Len(iteration_results) = Min(candidates, max_iterations)

\* C9 amended: a failed checkout of the original branch after an iteration is
\* not escalated: the run does not raise, it leaves the loop, tries the
\* checkout once more and returns the results up to and including that
\* iteration's; the candidates after it are not iterated.
C9_FailedCheckoutEndsRun ==
    Running =>
        \A k \in 1..Len(attempts) :
            attempts[k].checkout = "failed" =>
                /\ pc \in {"recover", "done"}
                /\ i = k
                /\ Len(attempts) = k
                /\ Len(iteration_results) = k

\* C9 witness: the checkout failed after the first of several candidates and
\* the run returned that one result.
C9_Witness ==
    /\ Returned
    /\ candidates > 1
    /\ attempts[1].checkout = "failed"
    /\ Len(iteration_results) = 1

BetweenIterations == Running /\ pc \in {"loop", "done"}

\* C10 as stated: after every iteration the run attempts the checkout of the
\* original branch and the deletion of the iteration's scratch branch.
C10_Original ==
    BetweenIterations =>
        \A k \in 1..Len(attempts) :
            /\ attempts[k].checkout # "none"
            /\ attempts[k].delete # "none"

\* C10 amended: after every iteration, succeeded or failed, the run attempts
\* the checkout of the original branch; when that checkout succeeds it
\* attempts to delete the iteration's scratch branch, and a failing deletion
\* is swallowed and does not stop the run; when the checkout fails the
\* deletion is not attempted.
C10_CleanupAttempted ==
    BetweenIterations =>
        /\ \A k \in 1..Len(attempts) :
            /\ attempts[k].checkout # "none"
            /\ attempts[k].checkout = "ok" => attempts[k].delete # "none"
            /\ attempts[k].checkout = "failed" => attempts[k].delete = "none"
        /\ (pc = "done" /\ NoCheckoutFailed) =>
                Len(attempts) = Min(candidates, max_iterations)

\* C10 witness: the deletion of a created branch failed, and the next
\* iteration ran and was cleaned up.
C10_Witness ==
    /\ Returned
    /\ \E k \in 1..Len(attempts) :
        /\ attempts[k].branch = "ok"
        /\ attempts[k].delete = "failed"
        /\ k < Len(attempts)
        /\ attempts[k + 1].checkout = "ok"
        /\ attempts[k + 1].delete = "ok"

---------------------------------------------------------------------------
(***************************************************************************)
(* OptimizationBusinessLogic                                               *)
(* (src/src/codemetrics/modules/optimization/business_logic.py): the five  *)
(* business rules and the filter built from them.                          *)
(*                                                                         *)
(* A pattern is a Python dict whose values may be of any type.  A value is *)
(* a record [t, n, s]: its type t ("float", "str" or "None"), its number n *)
(* when it is a float, its characters s when it is a str.  A str is the    *)
(* sequence of its characters, so that lower() and the substring test      *)
(* `in` are computed character by character.  A comparison or a method     *)
(* call on a value of the wrong type raises; a validator evaluates to      *)
(* "True", "False" or "raise".                                             *)
(***************************************************************************)

\* filter_patterns_by_business_rules is applied to lists of at most
\* MaxPatterns patterns
MaxPatterns == 2

Float(x) == [t |-> "float", n |-> x, s |-> <<>>]
Str(chars) == [t |-> "str", n |-> Zero, s |-> chars]
None == [t |-> "None", n |-> Zero, s |-> <<>>]
\* stands for a key the dict does not have
Absent == [t |-> "absent", n |-> Zero, s |-> <<>>]

UpperCase ==
    <<"A", "B", "C", "D", "E", "F", "G", "H", "I", "J", "K", "L", "M", "N", "O", "P", "Q", "R", "S", "T", "U", "V", "W", "X", "Y", "Z">>
LowerCase ==
    <<"a", "b", "c", "d", "e", "f", "g", "h", "i", "j", "k", "l", "m", "n", "o", "p", "q", "r", "s", "t", "u", "v", "w", "x", "y", "z">>

\* str.lower(), one character
LowerChar(c) ==
    IF \E k \in 1..Len(UpperCase) : UpperCase[k] = c
    THEN LowerCase[CHOOSE k \in 1..Len(UpperCase) : UpperCase[k] = c]
    ELSE c

\* str.lower()
Lower(chars) == [k \in 1..Len(chars) |-> LowerChar(chars[k])]

\* sub in chars
Contains(chars, sub) ==
    \E k \in 0..(Len(chars) - Len(sub)) :
        SubSeq(chars, k + 1, k + Len(sub)) = sub

critical_components == {
    <<"a", "u", "t", "h", "e", "n", "t", "i", "c", "a", "t", "i", "o", "n">>,
    <<"p", "a", "y", "m", "e", "n", "t">>,
    <<"s", "e", "c", "u", "r", "i", "t", "y">>,
    <<"d", "a", "t", "a", "_", "s", "t", "o", "r", "a", "g", "e">> }

high_risk_operations == {
    <<"d", "e", "l", "e", "t", "e">>,
    <<"r", "e", "m", "o", "v", "e">>,
    <<"d", "i", "s", "a", "b", "l", "e">>,
    <<"b", "y", "p", "a", "s", "s">> }

codecreate == <<"c", "o", "d", "e", "c", "r", "e", "a", "t", "e">>
codereview == <<"c", "o", "d", "e", "r", "e", "v", "i", "e", "w">>
codetest == <<"c", "o", "d", "e", "t", "e", "s", "t">>
framework == <<"f", "r", "a", "m", "e", "w", "o", "r", "k">>

coverage_simulation ==
    (codecreate :> Rat(85, 100)) @@ (codereview :> Rat(92, 100))
        @@ (codetest :> Rat(89, 100)) @@ (framework :> Rat(78, 100))

min_coverage == Rat(70, 100)
default_coverage == Rat(60, 100)

\* value > threshold, where value is whatever the dict holds
GreaterThan(value, threshold) ==
    IF value.t # "float" THEN "raise"
    ELSE IF RLt(threshold, value.n) THEN "True" ELSE "False"

\* not b
Not(b) == CASE b = "True" -> "False" [] b = "False" -> "True" [] OTHER -> b

_is_critical_component_risk(pattern) ==
    LET component == Get(pattern, "component", Str(<<>>))
        optimization_type == Get(pattern, "suggested_optimization", Str(<<>>))
    IN  IF component.t # "str" \/ optimization_type.t # "str" THEN "raise"
        ELSE IF /\ \E critical \in critical_components :
                        Contains(Lower(component.s), critical)
                /\ \E risk_op \in high_risk_operations :
                        Contains(Lower(optimization_type.s), risk_op)
             THEN "True"
             ELSE "False"

\* the coverage rule with unknown components counted as covered
has_adequate_test_coverage_unknown_covered(pattern) ==
    LET component == Get(pattern, "component", Str(<<>>))
    IN  IF component.t # "str" THEN "raise"
        ELSE IF RLe(min_coverage,
                    Get(coverage_simulation, Lower(component.s), min_coverage))
             THEN "True"
             ELSE "False"

_has_adequate_test_coverage(pattern) ==
    LET component == Get(pattern, "component", Str(<<>>))
    IN  IF component.t # "str" THEN "raise"
        ELSE IF RLe(min_coverage,
                    Get(coverage_simulation, Lower(component.s), default_coverage))
             THEN "True"
             ELSE "False"

\* self.business_rules[k - 1].validator(pattern)
validator(k, pattern) ==
    CASE k = 1 -> GreaterThan(Get(pattern, "confidence", Float(Zero)), Rat(7, 10))
      [] k = 2 -> GreaterThan(Get(pattern, "impact_score", Float(Zero)), Rat(5, 10))
      [] k = 3 -> GreaterThan(Get(pattern, "frequency", Float(Zero)), Rat(5, 100))
      [] k = 4 -> Not(_is_critical_component_risk(pattern))
      [] k = 5 -> _has_adequate_test_coverage(pattern)

\* len(self.business_rules)
RuleCount == 5

\* the rules from k on, all evaluated before any result is looked at
MeetsFrom_all_evaluated(k, pattern) ==
    IF \E j \in k..RuleCount : validator(j, pattern) = "raise" THEN "raise"
    ELSE IF \A j \in k..RuleCount : validator(j, pattern) = "True" THEN "True"
    ELSE "False"

RECURSIVE MeetsFrom(_, _)
\* the loop of _pattern_meets_business_rules from rule k on
MeetsFrom(k, pattern) ==
    IF k > RuleCount THEN "True"
    ELSE LET result == validator(k, pattern)
         IN  IF result = "True" THEN MeetsFrom(k + 1, pattern) ELSE result

_pattern_meets_business_rules(pattern) == MeetsFrom(1, pattern)

RECURSIVE filter_patterns_by_business_rules(_)
\* [raised, value]: whether the call raised, and the list it returned
filter_patterns_by_business_rules(patterns) ==
    IF patterns = <<>> THEN [raised |-> FALSE, value |-> <<>>]
    ELSE LET meets == _pattern_meets_business_rules(Head(patterns))
             rest == filter_patterns_by_business_rules(Tail(patterns))
         IN  IF meets = "raise" \/ rest.raised
             THEN [raised |-> TRUE, value |-> <<>>]
             ELSE IF meets = "True"
                  THEN [raised |-> FALSE, value |-> <<Head(patterns)>> \o rest.value]
                  ELSE rest

(* The patterns the calls are applied to *)

ConfidenceValues ==
    {Absent, None, Str(<<"h", "i", "g", "h">>),
     Float(Rat(6, 10)), Float(Rat(7, 10)), Float(Rat(8, 10))}
ImpactValues == {Absent, Str(<<"h", "i", "g", "h">>), Float(Rat(5, 10)), Float(Rat(6, 10))}
FrequencyValues == {Absent, None, Float(Rat(5, 100)), Float(Rat(1, 10))}
ComponentValues ==
    {Absent, None, Float(One), Str(codecreate), Str(<<"C", "o", "d", "e", "T", "e", "s", "t">>),
     Str(<<"P", "a", "y", "m", "e", "n", "t", "_", "A", "P", "I">>)}
OptimizationValues ==
    {Absent, Float(One), Str(<<"a", "d", "d", " ", "c", "a", "c", "h", "e">>), Str(<<"R", "e", "m", "o", "v", "e", " ", "r", "e", "t", "r", "y">>)}

PatternDict(confidence, impact_score, frequency, component, optimization) ==
    Entry("confidence", confidence, Absent)
        @@ Entry("impact_score", impact_score, Absent)
        @@ Entry("frequency", frequency, Absent)
        @@ Entry("component", component, Absent)
        @@ Entry("suggested_optimization", optimization, Absent)

PatternDicts ==
    { PatternDict(c, m, f, k, o) :
        c \in ConfidenceValues, m \in ImpactValues, f \in FrequencyValues,
        k \in ComponentValues, o \in OptimizationValues }

\* the patterns that lists are made of: records that pass the three
\* thresholds or just miss the first, on known and unknown components, and
\* records on a known component that just miss the second or the third, or
\* whose optimization is not a str
ListedPatterns ==
    { PatternDict(c, Float(Rat(6, 10)), Float(Rat(1, 10)), k, o) :
        c \in {Float(Rat(7, 10)), Float(Rat(8, 10))},
        k \in {Str(codecreate), Str(<<"C", "o", "d", "e", "T", "e", "s", "t">>), Str(<<"P", "a", "y", "m", "e", "n", "t", "_", "A", "P", "I">>)},
        o \in {Str(<<"a", "d", "d", " ", "c", "a", "c", "h", "e">>), Str(<<"R", "e", "m", "o", "v", "e", " ", "r", "e", "t", "r", "y">>)} }
    \cup
    { PatternDict(Float(Rat(8, 10)), m, f, Str(codecreate), o) :
        m \in {Float(Rat(5, 10)), Float(Rat(6, 10))},
        f \in {Float(Rat(5, 100)), Float(Rat(1, 10))},
        o \in {Str(<<"a", "d", "d", " ", "c", "a", "c", "h", "e">>), Float(One)} }

call_pattern_meets_business_rules ==
    /\ pc = "idle"
    /\ \E pattern \in PatternDicts :
        LET result == _pattern_meets_business_rules(pattern)
        IN  /\ arg' = pattern
            /\ ret' = result
            /\ pc' = IF result = "raise" THEN "raised" ELSE "returned"
    /\ op' = "_pattern_meets_business_rules"
    /\ UNCHANGED <<engine_vars, now, audit_vars, error_vars,
                   optimize_vars>>

call_filter_patterns_by_business_rules ==
    /\ pc = "idle"
    /\ \E n \in 0..MaxPatterns :
        \E patterns \in [1..n -> ListedPatterns] :
            LET result == filter_patterns_by_business_rules(patterns)
            IN  /\ arg' = patterns
                /\ ret' = result.value
                /\ pc' = IF result.raised THEN "raised" ELSE "returned"
    /\ op' = "filter_patterns_by_business_rules"
    /\ UNCHANGED <<engine_vars, now, audit_vars, error_vars,
                   optimize_vars>>

RulesNext ==
    \/ call_pattern_meets_business_rules
    \/ call_filter_patterns_by_business_rules

RulesSpec == Init /\ [][RulesNext]_vars

(* Properties of the business rules *)

Filtered == op = "filter_patterns_by_business_rules" /\ pc = "returned"
Judged == op = "_pattern_meets_business_rules" /\ pc # "idle"

IsFloat(pattern, key) == key \in DOMAIN pattern /\ pattern[key].t = "float"
IsStr(pattern, key) == key \in DOMAIN pattern /\ pattern[key].t = "str"

\* the text of a field, lower-cased; empty when the field is missing
LowerText(pattern, key) ==
    IF IsStr(pattern, key) THEN Lower(pattern[key].s) ELSE <<>>

ConfidenceHolds(pattern) ==
    IsFloat(pattern, "confidence") /\ RLt(Rat(7, 10), pattern["confidence"].n)
ImpactHolds(pattern) ==
    IsFloat(pattern, "impact_score") /\ RLt(Rat(5, 10), pattern["impact_score"].n)
FrequencyHolds(pattern) ==
    IsFloat(pattern, "frequency") /\ RLt(Rat(5, 100), pattern["frequency"].n)
NoCriticalRiskHolds(pattern) ==
    ~ /\ \E name \in critical_components :
            Contains(LowerText(pattern, "component"), name)
      /\ \E verb \in high_risk_operations :
            Contains(LowerText(pattern, "suggested_optimization"), verb)
CoverageHolds(pattern) ==
    LowerText(pattern, "component") \in {codecreate, codereview, codetest, framework}

AllFiveHold(pattern) ==
    /\ ConfidenceHolds(pattern)
    /\ ImpactHolds(pattern)
    /\ FrequencyHolds(pattern)
    /\ NoCriticalRiskHolds(pattern)
    /\ CoverageHolds(pattern)

\* C11: the filter returns exactly the input records for which all five
\* predicates hold (confidence > 0.7, impact_score > 0.5, frequency > 0.05,
\* no critical component name together with a high-risk verb, simulated
\* coverage >= 0.70 with unknown components at 0.60), in their original
\* order; a record failing any predicate is dropped.
C11_FilterKeepsExactlyPassing ==
    Filtered => ret = SelectSeq(arg, AllFiveHold)

\* a list of two records of which the filter kept the second only, the
\* first being dropped by the coverage rule alone
C11_Witness ==
    /\ Filtered
    /\ Len(arg) = 2
    /\ ret = <<arg[2]>>
    /\ arg[1] # arg[2]
    /\ ConfidenceHolds(arg[1]) /\ ImpactHolds(arg[1]) /\ FrequencyHolds(arg[1])
    /\ NoCriticalRiskHolds(arg[1])
    /\ ~CoverageHolds(arg[1])

LowConfidence(pattern) ==
    \/ "confidence" \notin DOMAIN pattern
    \/ /\ pattern["confidence"].t = "float"
       /\ RLe(pattern["confidence"].n, Rat(7, 10))

\* C12: a pattern whose confidence does not exceed 0.7, or is missing, is
\* rejected whatever the values, types or presence of its other fields, and
\* evaluating it never raises.
C12_LowConfidenceRejected ==
    /\ Judged /\ LowConfidence(arg) => pc = "returned" /\ ret = "False"
    /\ Filtered => \A k \in 1..Len(ret) : ~LowConfidence(ret[k])

\* a pattern without confidence whose component is a number and whose
\* impact score is a string was rejected
C12_Witness ==
    /\ Judged
    /\ "confidence" \notin DOMAIN arg
    /\ "component" \in DOMAIN arg /\ arg["component"].t = "float"
    /\ "impact_score" \in DOMAIN arg /\ arg["impact_score"].t = "str"
    /\ ret = "False"

---------------------------------------------------------------------------
(***************************************************************************)
(* OptimizationPattern                                                     *)
(* (src/src/codemetrics/modules/optimization/domain_entities.py): to_dict  *)
(* and from_dict.  An enum member is its name, ComponentTypeValue and      *)
(* IssueTypeValue give its .value; a datetime is a number of clock ticks   *)
(* and isoformat() wraps it in a text.                                     *)
(***************************************************************************)

\* created_at and the time of a call range over 0..MaxClock
MaxClock == 2

ComponentTypeValue ==
    ("FRAMEWORK" :> "framework") @@ ("CODECREATE" :> "codecreate")
        @@ ("CODEREVIEW" :> "codereview") @@ ("CODETEST" :> "codetest")
        @@ ("CODEMETRICS" :> "codemetrics")

IssueTypeValue ==
    ("PERFORMANCE" :> "performance") @@ ("QUALITY" :> "quality")
        @@ ("RELIABILITY" :> "reliability") @@ ("USABILITY" :> "usability")
        @@ ("INTEGRATION" :> "integration") @@ ("SECURITY" :> "security")

\* Enum(value): the member whose value it is; "ValueError" when there is none
EnumOf(values, value) ==
    IF \E member \in DOMAIN values : values[member] = value
    THEN CHOOSE member \in DOMAIN values : values[member] = value
    ELSE "ValueError"

\* datetime.isoformat()
isoformat(t) == [isoformat |-> t]

to_dict(self) ==
    [pattern_id |-> self.pattern_id,
     component |-> ComponentTypeValue[self.component],
     issue_type |-> IssueTypeValue[self.issue_type],
     frequency |-> self.frequency,
     impact_score |-> self.impact_score,
     confidence |-> self.confidence,
     description |-> self.description,
     suggested_optimization |-> self.suggested_optimization,
     root_cause_analysis |-> self.root_cause_analysis,
     business_impact |-> self.business_impact,
     estimated_effort |-> self.estimated_effort,
     prerequisites |-> self.prerequisites,
     risks |-> self.risks,
     created_at |-> isoformat(self.created_at)]

\* from_dict called at time clock; [raised, value]
from_dict(data, clock) ==
    LET component == EnumOf(ComponentTypeValue, Get(data, "component", "unknown"))
        issue_type == EnumOf(IssueTypeValue, Get(data, "issue_type", "performance"))
    IN  [raised |-> component = "ValueError" \/ issue_type = "ValueError",
         value |->
            [pattern_id |-> Get(data, "pattern_id", ""),
             component |-> component,
             issue_type |-> issue_type,
             frequency |-> Get(data, "frequency", Zero),
             impact_score |-> Get(data, "impact_score", Zero),
             confidence |-> Get(data, "confidence", Zero),
             description |-> Get(data, "description", ""),
             suggested_optimization |-> Get(data, "suggested_optimization", ""),
             root_cause_analysis |-> Get(data, "root_cause_analysis", EmptyMap),
             business_impact |-> Get(data, "business_impact", ""),
             estimated_effort |-> Get(data, "estimated_effort", "unknown"),
             prerequisites |-> Get(data, "prerequisites", <<>>),
             risks |-> Get(data, "risks", <<>>),
             \* created_at is not passed: default_factory=datetime.now
             created_at |-> clock]]

OptimizationPatterns ==
    [pattern_id : {"pattern_1"},
     component : DOMAIN ComponentTypeValue,
     issue_type : DOMAIN IssueTypeValue,
     frequency : {Rat(1, 10)},
     impact_score : {Rat(6, 10)},
     confidence : {Rat(8, 10), One},
     description : {"slow generation"},
     suggested_optimization : {"add cache"},
     root_cause_analysis : {EmptyMap, "cause" :> "no cache"},
     business_impact : {"high"},
     estimated_effort : {"unknown", "2 days"},
     prerequisites : {<<>>, <<"tests">>},
     risks : {<<>>},
     created_at : 0..MaxClock]

\* from_dict(p.to_dict()), called when the clock shows t
call_round_trip ==
    /\ pc = "idle"
    /\ \E p \in OptimizationPatterns :
        \E t \in p.created_at..MaxClock :
            LET result == from_dict(to_dict(p), t)
            IN  /\ arg' = p
                /\ now' = t
                /\ ret' = result.value
                /\ pc' = IF result.raised THEN "raised" ELSE "returned"
    /\ op' = "from_dict(to_dict)"
    /\ UNCHANGED <<engine_vars, audit_vars, error_vars,
                   optimize_vars>>

PatternNext == call_round_trip

PatternSpec == Init /\ [][PatternNext]_vars

(* Properties of OptimizationPattern *)

RoundTripped == op = "from_dict(to_dict)" /\ pc # "idle"

\* C13: from_dict(p.to_dict()) reproduces every field of p, created_at
\* included, the enums going through their string values.
C13_RoundTripReproducesEveryField ==
    RoundTripped => pc = "returned" /\ ret = arg

---------------------------------------------------------------------------
(***************************************************************************)
(* DatabaseAuditTrail and FileAuditTrail                                   *)
(* (src/src/codemetrics/modules/optimization/audit_trail.py).              *)
(*                                                                         *)
(* The two backends keep their files apart (<output_dir>/audit_trail/      *)
(* <request_id>.json and <output_dir>/audit_trail.jsonl), so a caller's    *)
(* sequence of IAuditTrail calls is applied to one instance of each: an    *)
(* action is one interface call, made on both.  The directory outlives the *)
(* instances: NewInstance replaces the DatabaseAuditTrail by a new one on  *)
(* the same directory (FileAuditTrail keeps nothing in memory).  The file  *)
(* system works: the code prints and swallows a failed read or write.      *)
(*                                                                         *)
(* uuid4() is the number of the log call, datetime.now() the clock, which  *)
(* ticks at every log call.  None is the string "None".                    *)
(***************************************************************************)

\* a run makes at most MaxCalls log calls
MaxCalls == 3
\* at most MaxInstances DatabaseAuditTrail instances are created
MaxInstances == 2

RequestIds == {"req_1", "req_2"}

\* the OptimizationRequest of a run
Request(request_id) ==
    [request_id |-> request_id,
     components |-> <<"codecreate">>,
     max_iterations |-> max_iterations,
     priority_level |-> "high",
     requester |-> "cli",
     configuration |-> EmptyMap]

\* the lists of patterns that are logged: patterns the filter has passed
LoggedPattern(impact_score) ==
    PatternDict(Float(Rat(8, 10)), Float(impact_score), Float(Rat(1, 10)),
                Str(codecreate), Str(<<"a", "d", "d", " ", "c", "a", "c", "h", "e">>))
PatternLists ==
    {<<LoggedPattern(Rat(6, 10)), LoggedPattern(Rat(9, 10))>>}

\* the attempt and the result that are logged
Attempt == [iteration |-> 1, status |-> "success"]
Result == [status |-> "completed"]

\* datetime.fromisoformat()
fromisoformat(text) == text.isoformat

(* DatabaseAuditTrail *)

AuditEntry(entry_id, request_id, action, actor, details, correlation_id) ==
    [entry_id |-> entry_id,
     request_id |-> request_id,
     timestamp |-> now,
     action |-> action,
     actor |-> actor,
     details |-> details,
     before_state |-> "None",
     after_state |-> "None",
     correlation_id |-> correlation_id]

\* of the summary, the count of patterns and of those with impact > 0.8
_generate_pattern_summary(patterns) ==
    [total_patterns |-> Len(patterns),
     high_priority_patterns |->
        Cardinality({k \in 1..Len(patterns) :
            GreaterThan(Get(patterns[k], "impact_score", Float(Zero)),
                        Rat(8, 10)) = "True"})]

_audit_entry_to_dict(entry) ==
    [entry EXCEPT !.timestamp = isoformat(entry.timestamp)]

\* AuditEntry(entry_id=entry_data["entry_id"], ...)
entry_from_dict(entry_data) ==
    [entry_data EXCEPT !.timestamp = fromisoformat(entry_data.timestamp)]

ToDicts(entries) == [k \in 1..Len(entries) |-> _audit_entry_to_dict(entries[k])]

\* _store_audit_entry with the list of the id replaced by the entry
store_audit_entry_replacing(entries, entry) ==
    Put(entries, entry.request_id, <<entry>>)

\* self.audit_entries after _store_audit_entry(entry)
_store_audit_entry(entries, entry) ==
    Put(entries, entry.request_id,
        Append(Get(entries, entry.request_id, <<>>), entry))

\* the files after _persist_audit_trail(request_id): the file of the id is
\* opened with 'w' and the whole list in memory is written
_persist_audit_trail(entries, files, request_id) ==
    IF request_id \notin DOMAIN entries THEN files
    ELSE Put(files, request_id, ToDicts(entries[request_id]))

\* self.audit_entries after _load_audit_trail(request_id)
_load_audit_trail(entries, files, request_id) ==
    IF request_id \notin DOMAIN files THEN entries
    ELSE Put(entries, request_id,
             [k \in 1..Len(files[request_id]) |->
                entry_from_dict(files[request_id][k])])

\* get_audit_history with the list read before the file is loaded
Database_get_audit_history_read_before_load(entries, files, request_id) ==
    [entries |-> IF request_id \notin DOMAIN entries
                 THEN _load_audit_trail(entries, files, request_id)
                 ELSE entries,
     value |-> ToDicts(Get(entries, request_id, <<>>))]

\* get_audit_history without the load from the file
Database_get_audit_history_memory_only(entries, files, request_id) ==
    [entries |-> entries,
     value |-> ToDicts(Get(entries, request_id, <<>>))]

\* [entries, value]: self.audit_entries after the call and the list returned
Database_get_audit_history(entries, files, request_id) ==
    LET loaded == IF request_id \notin DOMAIN entries
                  THEN _load_audit_trail(entries, files, request_id)
                  ELSE entries
    IN  [entries |-> loaded,
         value |-> ToDicts(Get(loaded, request_id, <<>>))]

(* FileAuditTrail *)

FileEntry(entry_id, request_id, action, actor, details) ==
    [entry_id |-> entry_id,
     request_id |-> request_id,
     timestamp |-> isoformat(now),
     action |-> action,
     actor |-> actor,
     details |-> details]

\* the lines of the file after _append_audit_entry(entry)
_append_audit_entry(lines, entry) == Append(lines, entry)

\* get_audit_history without the test on request_id
File_get_audit_history_unfiltered(lines, request_id) == lines

File_get_audit_history(lines, request_id) ==
    SelectSeq(lines, LAMBDA entry : entry.request_id = request_id)

(* The calls of a run *)

NoRead ==
    [request_id |-> "", database |-> <<>>, file |-> <<>>, in_memory |-> FALSE]

\* uuid.uuid4()
NextEntryId == Len(calls) + 1

\* what every log call does besides writing its entry
Logged(method, request_id) ==
    /\ pc = "audit"
    /\ Len(calls) < MaxCalls
    /\ calls' = Append(calls, [method |-> method, request_id |-> request_id])
    /\ now' = now + 1
    /\ op' = method
    /\ arg' = request_id
    /\ prev' = NoRead
    /\ UNCHANGED <<pc, instances, engine_vars, error_vars,
                   optimize_vars>>

\* DatabaseAuditTrail(config) and FileAuditTrail(config) on an empty directory
new_audit_trails ==
    /\ pc = "idle"
    /\ pc' = "audit"
    /\ op' = "__init__"
    /\ instances' = 1
    /\ UNCHANGED <<arg, ret, now, audit_entries, storage, audit_file, calls,
                   prev, engine_vars, error_vars,
                   optimize_vars>>

\* a new DatabaseAuditTrail(config) on the same directory
NewInstance ==
    /\ pc = "audit"
    /\ instances < MaxInstances
    /\ instances' = instances + 1
    /\ audit_entries' = EmptyMap
    /\ op' = "__init__"
    /\ prev' = NoRead
    /\ UNCHANGED <<pc, arg, ret, now, storage, audit_file, calls, engine_vars, error_vars,
                   optimize_vars>>

log_optimization_start ==
    \E request_id \in RequestIds :
        LET request == Request(request_id)
            correlation_id == request.request_id
        IN  /\ Logged("log_optimization_start", request_id)
            /\ audit_entries' = _store_audit_entry(audit_entries,
                    AuditEntry(NextEntryId, request.request_id,
                        "optimization_started", "system",
                        [components |-> request.components,
                         max_iterations |-> request.max_iterations,
                         priority_level |-> request.priority_level,
                         requester |-> request.requester,
                         configuration |-> request.configuration],
                        correlation_id))
            /\ audit_file' = _append_audit_entry(audit_file,
                    [correlation_id |-> correlation_id]
                        @@ FileEntry(NextEntryId, request.request_id,
                                "optimization_started", "system",
                                [components |-> request.components,
                                 max_iterations |-> request.max_iterations,
                                 priority_level |-> request.priority_level,
                                 requester |-> request.requester]))
            /\ ret' = correlation_id
            /\ UNCHANGED storage

log_pattern_identification ==
    \E request_id \in RequestIds, patterns \in PatternLists :
        /\ Logged("log_pattern_identification", request_id)
        /\ audit_entries' = _store_audit_entry(audit_entries,
                AuditEntry(NextEntryId, request_id,
                    "patterns_identified", "ai_analyzer",
                    [pattern_count |-> Len(patterns),
                     patterns |-> patterns,
                     analysis_summary |-> _generate_pattern_summary(patterns)],
                    "None"))
        /\ audit_file' = _append_audit_entry(audit_file,
                FileEntry(NextEntryId, request_id,
                    "patterns_identified", "ai_analyzer",
                    [pattern_count |-> Len(patterns), patterns |-> patterns]))
        /\ ret' = "None"
        /\ UNCHANGED storage

log_optimization_attempt ==
    \E request_id \in RequestIds :
        /\ Logged("log_optimization_attempt", request_id)
        /\ audit_entries' = _store_audit_entry(audit_entries,
                AuditEntry(NextEntryId, request_id,
                    "optimization_attempt", "optimization_engine", Attempt,
                    "None"))
        /\ audit_file' = _append_audit_entry(audit_file,
                FileEntry(NextEntryId, request_id,
                    "optimization_attempt", "optimization_engine", Attempt))
        /\ ret' = "None"
        /\ UNCHANGED storage

log_optimization_result ==
    \E request_id \in RequestIds :
        LET stored == _store_audit_entry(audit_entries,
                AuditEntry(NextEntryId, request_id,
                    "optimization_completed", "optimization_engine", Result,
                    "None"))
        IN  /\ Logged("log_optimization_result", request_id)
            /\ audit_entries' = stored
            /\ storage' = _persist_audit_trail(stored, storage, request_id)
            /\ audit_file' = _append_audit_entry(audit_file,
                    FileEntry(NextEntryId, request_id,
                        "optimization_completed", "optimization_engine", Result))
            /\ ret' = "None"

get_audit_history ==
    /\ pc = "audit"
    /\ \E request_id \in RequestIds :
        LET database == Database_get_audit_history(audit_entries, storage,
                                                   request_id)
        IN  /\ audit_entries' = database.entries
            \* database and file: the lists the two backends return;
            \* in_memory: whether self.audit_entries had the id at the call
            /\ ret' = [database |-> database.value,
                       file |-> File_get_audit_history(audit_file, request_id),
                       in_memory |-> request_id \in DOMAIN audit_entries]
            /\ arg' = request_id
    /\ prev' = IF op = "get_audit_history"
               THEN [request_id |-> arg, database |-> ret.database,
                     file |-> ret.file, in_memory |-> ret.in_memory]
               ELSE NoRead
    /\ op' = "get_audit_history"
    /\ UNCHANGED <<pc, now, storage, audit_file, calls, instances, engine_vars, error_vars,
                   optimize_vars>>

AuditNext ==
    \/ new_audit_trails
    \/ NewInstance
    \/ log_optimization_start
    \/ log_pattern_identification
    \/ log_optimization_attempt
    \/ log_optimization_result
    \/ get_audit_history

AuditSpec == Init /\ [][AuditNext]_vars

(* Properties of the audit trails *)

Read == pc = "audit" /\ op = "get_audit_history"
FirstInstance == instances = 1

IsPrefix(s, t) == Len(s) <= Len(t) /\ SubSeq(t, 1, Len(s)) = s

\* the action each log method records
ActionOf ==
    ("log_optimization_start" :> "optimization_started")
        @@ ("log_pattern_identification" :> "patterns_identified")
        @@ ("log_optimization_attempt" :> "optimization_attempt")
        @@ ("log_optimization_result" :> "optimization_completed")

\* the log calls made with a request id, in the order of the calls
LoggedWith(request_id) ==
    SelectSeq([k \in 1..Len(calls) |->
                    [entry_id |-> k,
                     request_id |-> calls[k].request_id,
                     action |-> ActionOf[calls[k].method]]],
              LAMBDA call : call.request_id = request_id)

\* which entries a returned list holds
Identity(history) ==
    [k \in 1..Len(history) |->
        [entry_id |-> history[k].entry_id,
         request_id |-> history[k].request_id,
         action |-> history[k].action]]

\* C14: for both backends, get_audit_history(id) returns exactly the
\* entries logged with that id, in the order of the log calls, and no entry
\* of another id, after any interleaving of log calls for several ids (for
\* the DatabaseAuditTrail: calls made on the instance that is read).
C14_HistoryIsWhatWasLogged ==
    Read =>
        /\ Identity(ret.file) = LoggedWith(arg)
        /\ FirstInstance => Identity(ret.database) = LoggedWith(arg)

\* two entries of the id read were logged around an entry of another id
C14_Witness ==
    /\ Read
    /\ FirstInstance
    /\ Len(calls) = 3
    /\ calls[1].request_id = arg
    /\ calls[2].request_id # arg
    /\ calls[3].request_id = arg
    /\ Len(ret.database) = 2
    /\ Len(ret.file) = 2

\* C15: the audit log of an id is append-only: a persisted entry is
\* returned at the same position by every later get_audit_history(id), also
\* through a new DatabaseAuditTrail on the same directory, and persisting
\* never removes or replaces entries stored in the file of the id.
C15_AppendOnly ==
    [][ /\ \A request_id \in DOMAIN storage :
            /\ request_id \in DOMAIN storage'
            /\ IsPrefix(storage[request_id], storage'[request_id])
        /\ IsPrefix(audit_file, audit_file')
        /\ (op' = "get_audit_history" /\ arg' \in DOMAIN storage)
                => IsPrefix(storage[arg'], ret'.database) ]_vars

\* C16: a DatabaseAuditTrail without entries of the id in memory falls back
\* to the file and returns the entries persisted for the id, in their
\* order; an empty list when nothing was persisted.
C16_FallsBackToFile ==
    (Read /\ ~ret.in_memory) =>
        ret.database = Get(storage, arg, <<>>)

\* a new instance returned the two entries an earlier one had persisted
C16_Witness ==
    /\ Read
    /\ ~ret.in_memory
    /\ ~FirstInstance
    /\ Len(ret.database) = 2
    /\ arg \in DOMAIN audit_entries

\* C17: two calls of get_audit_history(id) in a row, with no log call in
\* between, return identical lists, for either backend and any id.
C17_ReadIdempotent ==
    (Read /\ prev.request_id = arg) =>
        /\ ret.database = prev.database
        /\ ret.file = prev.file

\* the first of the two reads loaded the entries from the file, the second
\* found them in memory
C17_Witness ==
    /\ Read
    /\ prev.request_id = arg
    /\ ~prev.in_memory
    /\ ret.in_memory
    /\ prev.database # <<>>

---------------------------------------------------------------------------
(***************************************************************************)
(* ErrorHandler                                                            *)
(* (src/src/codemetrics/modules/optimization/error_handling.py):           *)
(* handle_error on an exception of any type.  An exception is its type     *)
(* name, its message (both sequences of characters) and, for an            *)
(* OptimizationException, the category, severity and component its         *)
(* constructor set.                                                        *)
(***************************************************************************)

ErrorCategory ==
    {"CONFIGURATION", "AUTHENTICATION", "NETWORK", "AI_ANALYSIS",
     "GIT_OPERATIONS", "TESTING", "BUSINESS_LOGIC", "DATA_VALIDATION",
     "SYSTEM_RESOURCE", "TIMEOUT"}

ErrorSeverity == {"LOW", "MEDIUM", "HIGH", "CRITICAL"}

\* the subclasses of OptimizationException: what each constructor passes on
ExceptionClasses ==
    {[type_name |-> <<"C", "o", "n", "f", "i", "g", "u", "r", "a", "t", "i", "o", "n", "E", "r", "r", "o", "r">>, category |-> "CONFIGURATION",
      severity |-> "HIGH", component |-> "configuration"],
     [type_name |-> <<"A", "u", "t", "h", "e", "n", "t", "i", "c", "a", "t", "i", "o", "n", "E", "r", "r", "o", "r">>, category |-> "AUTHENTICATION",
      severity |-> "HIGH", component |-> "authentication"],
     [type_name |-> <<"N", "e", "t", "w", "o", "r", "k", "E", "r", "r", "o", "r">>, category |-> "NETWORK",
      severity |-> "MEDIUM", component |-> "network"],
     [type_name |-> <<"A", "I", "A", "n", "a", "l", "y", "s", "i", "s", "E", "r", "r", "o", "r">>, category |-> "AI_ANALYSIS",
      severity |-> "HIGH", component |-> "ai_analyzer"],
     [type_name |-> <<"G", "i", "t", "O", "p", "e", "r", "a", "t", "i", "o", "n", "E", "r", "r", "o", "r">>, category |-> "GIT_OPERATIONS",
      severity |-> "MEDIUM", component |-> "git_operations"],
     [type_name |-> <<"T", "e", "s", "t", "i", "n", "g", "E", "r", "r", "o", "r">>, category |-> "TESTING",
      severity |-> "MEDIUM", component |-> "testing"],
     [type_name |-> <<"B", "u", "s", "i", "n", "e", "s", "s", "L", "o", "g", "i", "c", "E", "r", "r", "o", "r">>, category |-> "BUSINESS_LOGIC",
      severity |-> "HIGH", component |-> "business_logic"],
     [type_name |-> <<"T", "i", "m", "e", "o", "u", "t", "E", "r", "r", "o", "r">>, category |-> "TIMEOUT",
      severity |-> "MEDIUM", component |-> "timeout"]}

\* the names of the other exception types that are handled
OtherTypeNames ==
    {<<"V", "a", "l", "u", "e", "E", "r", "r", "o", "r">>,
     <<"C", "a", "l", "l", "e", "d", "P", "r", "o", "c", "e", "s", "s", "E", "r", "r", "o", "r">>,
     <<"T", "i", "m", "e", "o", "u", "t", "E", "x", "p", "i", "r", "e", "d">>}

Messages ==
    {<<"O", "p", "e", "r", "a", "t", "i", "o", "n", " ", "t", "i", "m", "e", "o", "u", "t">>,
     <<"g", "i", "t", " ", "p", "u", "s", "h", " ", "r", "e", "j", "e", "c", "t", "e", "d">>,
     <<"b", "r", "a", "n", "c", "h", " ", "n", "o", "t", " ", "f", "o", "u", "n", "d">>,
     <<"c", "a", "n", "n", "o", "t", " ", "c", "r", "e", "a", "t", "e", " ", "b", "r", "a", "n", "c", "h">>,
     <<"G", "i", "t", " ", "c", "o", "n", "n", "e", "c", "t", "i", "o", "n", " ", "r", "e", "s", "e", "t">>,
     <<"i", "n", "v", "a", "l", "i", "d", " ", "A", "P", "I", " ", "k", "e", "y">>,
     <<"c", "l", "a", "u", "d", "e", " ", "o", "v", "e", "r", "l", "o", "a", "d", "e", "d">>,
     <<"p", "y", "t", "e", "s", "t", " ", "e", "x", "i", "t", "e", "d", " ", "w", "i", "t", "h", " ", "1">>,
     <<"d", "i", "s", "k", " ", "f", "u", "l", "l">>}

\* an exception that is not an OptimizationException
OtherException(type_name, message) ==
    [type_name |-> type_name, message |-> message, optimization |-> FALSE,
     category |-> "None", severity |-> "None", component |-> "None"]

\* OptimizationException(message, category, severity) or a subclass of it
OptimizationException(type_name, message, category, severity, component) ==
    [type_name |-> type_name, message |-> message, optimization |-> TRUE,
     category |-> category, severity |-> severity, component |-> component]

Exceptions ==
    { OtherException(t, m) : t \in OtherTypeNames, m \in Messages }
    \cup
    { OptimizationException(c.type_name, m, c.category, c.severity, c.component) :
        c \in ExceptionClasses, m \in Messages }
    \cup
    { OptimizationException(<<"O", "p", "t", "i", "m", "i", "z", "a", "t", "i", "o", "n", "E", "x", "c", "e", "p", "t", "i", "o", "n">>, <<"d", "i", "s", "k", " ", "f", "u", "l", "l">>,
                            c, v, "unknown") :
        c \in ErrorCategory, v \in ErrorSeverity }

\* the context argument: None, or a dict
Contexts ==
    {EmptyMap, ("component" :> "engine") @@ ("request_id" :> "req_1")}

\* any(keyword in text for keyword in keywords)
AnyIn(keywords, text) == \E keyword \in keywords : Contains(text, keyword)

_categorize_error(error) ==
    LET error_message == Lower(error.message)
        error_type == Lower(error.type_name)
    IN  IF AnyIn({<<"u", "n", "a", "u", "t", "h", "o", "r", "i", "z", "e", "d">>, <<"a", "u", "t", "h", "e", "n", "t", "i", "c", "a", "t", "i", "o", "n">>, <<"a", "p", "i", " ", "k", "e", "y">>, <<"t", "o", "k", "e", "n">>}, error_message)
        THEN "AUTHENTICATION"
        ELSE IF AnyIn({<<"c", "o", "n", "n", "e", "c", "t", "i", "o", "n">>, <<"n", "e", "t", "w", "o", "r", "k">>, <<"t", "i", "m", "e", "o", "u", "t">>, <<"u", "n", "r", "e", "a", "c", "h", "a", "b", "l", "e">>}, error_message)
        THEN "NETWORK"
        ELSE IF AnyIn({<<"c", "o", "n", "f", "i", "g">>, <<"m", "i", "s", "s", "i", "n", "g">>, <<"i", "n", "v", "a", "l", "i", "d">>, <<"n", "o", "t", " ", "f", "o", "u", "n", "d">>}, error_message)
        THEN "CONFIGURATION"
        ELSE IF AnyIn({<<"g", "i", "t">>, <<"r", "e", "p", "o", "s", "i", "t", "o", "r", "y">>, <<"b", "r", "a", "n", "c", "h">>, <<"c", "o", "m", "m", "i", "t">>}, error_message)
        THEN "GIT_OPERATIONS"
        ELSE IF AnyIn({<<"c", "l", "a", "u", "d", "e">>, <<"a", "n", "t", "h", "r", "o", "p", "i", "c">>, <<"m", "o", "d", "e", "l">>, <<"t", "o", "k", "e", "n", "s">>}, error_message)
        THEN "AI_ANALYSIS"
        ELSE IF AnyIn({<<"t", "e", "s", "t">>, <<"p", "y", "t", "e", "s", "t">>, <<"c", "o", "v", "e", "r", "a", "g", "e">>}, error_message)
        THEN "TESTING"
        ELSE IF \/ Contains(error_type, <<"t", "i", "m", "e", "o", "u", "t">>)
                \/ Contains(error_message, <<"t", "i", "m", "e", "o", "u", "t">>)
        THEN "TIMEOUT"
        ELSE "SYSTEM_RESOURCE"

_determine_severity(error, category) ==
    IF category \in {"AUTHENTICATION", "CONFIGURATION"} THEN "CRITICAL"
    ELSE IF category \in {"AI_ANALYSIS", "BUSINESS_LOGIC"} THEN "HIGH"
    ELSE IF category \in {"NETWORK", "GIT_OPERATIONS", "TESTING"} THEN "MEDIUM"
    ELSE "LOW"

\* the OptimizationError that handle_error builds (without its traceback
\* text and its resolution suggestions)
handle_error(error, context) ==
    LET category == IF error.optimization THEN error.category
                    ELSE _categorize_error(error)
        severity == IF error.optimization THEN error.severity
                    ELSE _determine_severity(error, category)
        component == IF error.optimization THEN error.component
                     ELSE IF context # EmptyMap
                          THEN Get(context, "component", "unknown")
                          ELSE "unknown"
    IN  [error_id |-> Len(error_history) + 1,
         timestamp |-> now,
         category |-> category,
         severity |-> severity,
         message |-> error.message,
         component |-> component,
         request_id |-> IF context # EmptyMap
                        THEN Get(context, "request_id", "None")
                        ELSE "None",
         context |-> context]

call_handle_error ==
    /\ pc = "idle"
    /\ \E error \in Exceptions, context \in Contexts :
        LET optimization_error == handle_error(error, context)
        IN  /\ arg' = [error |-> error, context |-> context]
            /\ error_history' = Append(error_history, optimization_error)
            /\ ret' = optimization_error
    /\ op' = "handle_error"
    /\ pc' = "returned"
    /\ UNCHANGED <<engine_vars, now, audit_vars, optimize_vars, invocations, recovered>>

(* attempt_recovery and the decorator handle_optimization_errors *)

\* max_retries = 3
max_retries == 3

\* the loop sleeps and returns True in its last round
_recover_network_error(error) ==
    \E attempt \in 0..(max_retries - 1) : attempt = max_retries - 1

_recover_ai_analysis_error(error) ==
    Contains(Lower(error.message), <<"t", "o", "k", "e", "n">>)

_recover_testing_error(error) == error.severity \in {"LOW", "MEDIUM"}

_recover_timeout_error(error) == TRUE

\* self.recovery_strategies
recovery_strategies == {"NETWORK", "AI_ANALYSIS", "TESTING", "TIMEOUT"}

attempt_recovery(error) ==
    IF error.category \in recovery_strategies
    THEN CASE error.category = "NETWORK" -> _recover_network_error(error)
           [] error.category = "AI_ANALYSIS" -> _recover_ai_analysis_error(error)
           [] error.category = "TESTING" -> _recover_testing_error(error)
           [] error.category = "TIMEOUT" -> _recover_timeout_error(error)
    ELSE FALSE

\* the context the wrapper builds: function, args and kwargs
WrapperContext == ("function" :> "func") @@ ("args" :> "()") @@ ("kwargs" :> "{}")

\* the wrapper calls the function again whatever attempt_recovery returned
AfterRecovery_always_retry(result) == "retry"

\* where the wrapper goes after attempt_recovery
AfterRecovery(result) == IF result THEN "retry" ELSE "raised"

\* wrapper(*args, **kwargs)
call_wrapper ==
    /\ pc = "idle"
    /\ pc' = "try"
    /\ op' = "handle_optimization_errors"
    /\ UNCHANGED <<arg, ret, now, engine_vars, audit_vars, error_vars,
                   optimize_vars>>

\* func(*args, **kwargs) returns
FuncReturns ==
    /\ pc \in {"try", "retry"}
    /\ invocations' = invocations + 1
    /\ pc' = "returned"
    /\ UNCHANGED <<op, arg, ret, now, engine_vars, audit_vars, optimize_vars, error_history,
                   recovered>>

\* func(*args, **kwargs) raises at the first call
FuncRaises ==
    /\ pc = "try"
    /\ \E error \in Exceptions : arg' = [error |-> error, context |-> WrapperContext]
    /\ invocations' = invocations + 1
    /\ pc' = "except"
    /\ UNCHANGED <<op, ret, now, engine_vars, audit_vars, optimize_vars, error_history,
                   recovered>>

\* optimization_error = handler.handle_error(e, context)
HandleError ==
    /\ pc = "except"
    /\ LET optimization_error == handle_error(arg.error, arg.context)
       IN  /\ error_history' = Append(error_history, optimization_error)
           /\ ret' = optimization_error
    /\ pc' = "recovery"
    /\ UNCHANGED <<op, arg, now, engine_vars, audit_vars, optimize_vars, invocations, recovered>>

\* handler.attempt_recovery(optimization_error, context)
AttemptRecovery ==
    /\ pc = "recovery"
    /\ LET result == attempt_recovery(ret)
       IN  /\ recovered' = IF result THEN "True" ELSE "False"
           /\ pc' = AfterRecovery(result)
    /\ UNCHANGED <<op, arg, ret, now, engine_vars, audit_vars, optimize_vars, error_history,
                   invocations>>

\* the second func(*args, **kwargs) raises: the error is handled and raised
RetryRaises ==
    /\ pc = "retry"
    /\ \E retry_error \in Exceptions :
        LET optimization_error == handle_error(retry_error, WrapperContext)
        IN  /\ arg' = [error |-> retry_error, context |-> WrapperContext]
            /\ error_history' = Append(error_history, optimization_error)
    /\ invocations' = invocations + 1
    /\ pc' = "raised"
    /\ UNCHANGED <<op, ret, now, engine_vars, audit_vars, optimize_vars, recovered>>

ErrorNext ==
    \/ call_handle_error
    \/ call_wrapper
    \/ FuncReturns
    \/ FuncRaises
    \/ HandleError
    \/ AttemptRecovery
    \/ RetryRaises

ErrorSpec == Init /\ [][ErrorNext]_vars

(* Properties of the error handler *)

Handled == op = "handle_error" /\ pc = "returned"

\* C19: for an exception that is not an OptimizationException, a message
\* containing "timeout" is categorized TIMEOUT and a message containing
\* "git" or "branch" is categorized GIT_OPERATIONS.
C19_KeywordClassification ==
    (Handled /\ ~arg.error.optimization) =>
        LET message == Lower(arg.error.message)
        IN  /\ Contains(message, <<"t", "i", "m", "e", "o", "u", "t">>) => ret.category = "TIMEOUT"
            /\ (Contains(message, <<"g", "i", "t">>) \/ Contains(message, <<"b", "r", "a", "n", "c", "h">>))
                    => ret.category = "GIT_OPERATIONS"

\* the severity the claim gives each category
SeverityOf(category) ==
    CASE category \in {"AUTHENTICATION", "CONFIGURATION"} -> "CRITICAL"
      [] category \in {"AI_ANALYSIS", "BUSINESS_LOGIC"} -> "HIGH"
      [] category \in {"NETWORK", "GIT_OPERATIONS", "TESTING"} -> "MEDIUM"
      [] OTHER -> "LOW"

\* C20: the severity of every OptimizationError that handle_error returns
\* is the one of its category (CRITICAL for AUTHENTICATION and
\* CONFIGURATION, HIGH for AI_ANALYSIS and BUSINESS_LOGIC, MEDIUM for
\* NETWORK, GIT_OPERATIONS and TESTING, LOW otherwise), whatever the type of
\* the exception handled.
C20_SeverityByCategory ==
    Handled => ret.severity = SeverityOf(ret.category)

Wrapped == op = "handle_optimization_errors"

\* C21 as stated: after the wrapped function raised, it is not executed
\* again, whatever attempt_recovery returns.
C21_Original == Wrapped => invocations <= 1

\* C21: attempt_recovery does not call the function; the wrapper calls it
\* a second time exactly when attempt_recovery returned True, and never a
\* third time.
C21_RetryOnlyAfterRecovery ==
    Wrapped =>
        /\ invocations <= 2
        /\ invocations = 2 => recovered = "True"
        /\ pc \in {"except", "recovery"} => invocations = 1
        /\ recovered # "none" =>
                /\ pc = "retry" => invocations = 1
                /\ recovered = "False" => pc = "raised" /\ invocations = 1

\* the function raised, recovery succeeded, and the second call raised too
C21_Witness ==
    /\ Wrapped
    /\ pc = "raised"
    /\ recovered = "True"
    /\ invocations = 2
    /\ Len(error_history) = 2

---------------------------------------------------------------------------
(* EcosystemIntelligenceLoop.run_intelligence_loop: the five steps of    *)
(* the loop inside one try block. The steps of run_iterative_improvements *)
(* are the actions of the iteration engine above.                         *)

InLoop == op = "run_intelligence_loop"

\* generate_intelligence_report: the execution summary of the report
generate_intelligence_report(n, results, best) ==
    [intelligence_loop_report |->
        [improvement_candidates_generated |-> n,
         iterations_tested |-> Len(results),
         successful_improvements_found |-> Len(best)]]

\* return {"error": str(e), "status": "failed"}
FailedPayload(e) == [error |-> e, status |-> "failed"]

\* the other actions of the loop leave the optimization modules alone
LoopFrame == UNCHANGED <<arg, now, audit_vars, error_vars,
                   optimize_vars>>

call_run_intelligence_loop ==
    /\ pc = "idle"
    /\ op' = "run_intelligence_loop"
    /\ pc' = "collect"
    /\ UNCHANGED <<engine_vars, ret>>
    /\ LoopFrame

\* feedback_analysis = await self.collect_ecosystem_feedback()
CollectFeedback ==
    /\ pc = "collect"
    /\ pc' = "identify"
    /\ UNCHANGED <<op, engine_vars, ret>>
    /\ LoopFrame

\* a process collector or the model call raises: collect_ecosystem_feedback
\* catches it and records {"error": str(e)} in the feedback data
CollectFeedbackCaught ==
    /\ pc = "collect"
    /\ Fault
    /\ pc' = "identify"
    /\ UNCHANGED <<op, test_results, success_score, iteration_results,
                   best_improvements, candidates, i, head, branches, attempts,
                   working_tree, exception, ret>>
    /\ LoopFrame

\* json.dumps of the feedback data raises while the prompt is built, outside
\* the try of _analyze_feedback_patterns
CollectFeedbackFails ==
    /\ pc = "collect"
    /\ Fault
    /\ exception' = "collect_ecosystem_feedback failed"
    /\ pc' = "except"
    /\ UNCHANGED <<op, test_results, success_score, iteration_results,
                   best_improvements, candidates, i, head, branches, attempts,
                   working_tree, ret>>
    /\ LoopFrame

\* improvement_candidates = await self.identify_improvements(...), at most
\* max_iterations of them; run_iterative_improvements is then called
IdentifyImprovements ==
    /\ pc = "identify"
    /\ \E n \in 0..IterationCount(MaxCandidates) : candidates' = n
    /\ pc' = "open_repo"
    /\ UNCHANGED <<op, test_results, success_score, iteration_results,
                   best_improvements, i, head, branches, attempts, faults,
                   working_tree, exception, ret>>
    /\ LoopFrame

\* _generate_improvement_candidates catches its exception and returns []
IdentifyImprovementsCaught ==
    /\ pc = "identify"
    /\ Fault
    /\ candidates' = 0
    /\ pc' = "open_repo"
    /\ UNCHANGED <<op, test_results, success_score, iteration_results,
                   best_improvements, i, head, branches, attempts,
                   working_tree, exception, ret>>
    /\ LoopFrame

\* the sort of the candidates raises (keys that cannot be compared)
IdentifyImprovementsFails ==
    /\ pc = "identify"
    /\ Fault
    /\ exception' = "identify_improvements failed"
    /\ pc' = "except"
    /\ UNCHANGED <<op, test_results, success_score, iteration_results,
                   best_improvements, candidates, i, head, branches, attempts,
                   working_tree, ret>>
    /\ LoopFrame

\* best_improvements = self.evaluate_iterations(iteration_results)
EvaluateIterations ==
    /\ InLoop
    /\ pc = "done"
    /\ best_improvements' = evaluate_iterations(iteration_results)
    /\ pc' = "report"
    /\ UNCHANGED <<op, test_results, success_score, iteration_results,
                   candidates, i, head, branches, attempts, faults,
                   working_tree, exception, ret>>
    /\ LoopFrame

\* evaluate_iterations raises (a description that cannot be sliced)
EvaluateIterationsFails ==
    /\ InLoop
    /\ pc = "done"
    /\ Fault
    /\ exception' = "evaluate_iterations failed"
    /\ pc' = "except"
    /\ UNCHANGED <<op, test_results, success_score, iteration_results,
                   best_improvements, candidates, i, head, branches, attempts,
                   working_tree, ret>>
    /\ LoopFrame

\* report = self.generate_intelligence_report(...); return report
GenerateReport ==
    /\ pc = "report"
    /\ ret' = generate_intelligence_report(candidates, iteration_results,
                                           best_improvements)
    /\ pc' = "loop_returned"
    /\ UNCHANGED <<op, engine_vars>>
    /\ LoopFrame

GenerateReportFails ==
    /\ pc = "report"
    /\ Fault
    /\ exception' = "generate_intelligence_report failed"
    /\ pc' = "except"
    /\ UNCHANGED <<op, test_results, success_score, iteration_results,
                   best_improvements, candidates, i, head, branches, attempts,
                   working_tree, ret>>
    /\ LoopFrame

\* mutant: the handler lets the exception go on to the caller
CatchException_reraised ==
    /\ InLoop
    /\ pc \in {"except", "raised"}
    /\ pc' = "loop_raised"
    /\ UNCHANGED <<op, engine_vars, ret>>
    /\ LoopFrame

\* except Exception as e: return {"error": str(e), "status": "failed"}
CatchException ==
    /\ InLoop
    /\ pc \in {"except", "raised"}
    /\ ret' = FailedPayload(exception)
    /\ pc' = "loop_returned"
    /\ UNCHANGED <<op, engine_vars>>
    /\ LoopFrame

LoopNext ==
    \/ call_run_intelligence_loop
    \/ CollectFeedback
    \/ CollectFeedbackCaught
    \/ CollectFeedbackFails
    \/ IdentifyImprovements
    \/ IdentifyImprovementsCaught
    \/ IdentifyImprovementsFails
    \/ OpenRepo
    \/ OpenRepoFails
    \/ NextCandidate
    \/ ReturnResults
    \/ CreateBranch
    \/ CreateBranchFails
    \/ ApplyCodeChanges
    \/ ApplyCodeChangesFails
    \/ RunImprovementTests
    \/ RunImprovementTestsFails
    \/ ScoreIteration
    \/ CheckoutOriginal
    \/ CheckoutOriginalFails
    \/ DeleteBranch
    \/ DeleteBranchFails
    \/ RecoverCheckout
    \/ RecoverCheckoutFails
    \/ EvaluateIterations
    \/ EvaluateIterationsFails
    \/ GenerateReport
    \/ GenerateReportFails
    \/ CatchException

LoopSpec == Init /\ [][LoopNext]_vars

---------------------------------------------------------------------------
(* Properties of run_intelligence_loop *)

\* the call has ended, by returning or by raising
LoopFinished == InLoop /\ pc \in {"loop_returned", "loop_raised"}

IsFailedPayload(r) ==
    /\ DOMAIN r = {"error", "status"}
    /\ r.status = "failed"
    /\ r.error # ""

IsReport(r) ==
    /\ DOMAIN r = {"intelligence_loop_report"}
    /\ r.intelligence_loop_report.improvement_candidates_generated = candidates
    /\ r.intelligence_loop_report.iterations_tested = Len(iteration_results)
    /\ r.intelligence_loop_report.successful_improvements_found
            = Min(TopCount,
                  Cardinality({k \in 1..Len(iteration_results) :
                        RLt(Zero, iteration_results[k].success_score)}))

\* the claim as stated: whenever one of the steps failed, iteration testing
\* included, the call returns the failed payload
C22_Original ==
    LoopFinished =>
        /\ pc = "loop_returned"
        /\ IF faults > 0 THEN IsFailedPayload(ret) ELSE IsReport(ret)

\* C22: run_intelligence_loop never lets an exception reach its caller. When
\* a step raises into it (collect_ecosystem_feedback, identify_improvements,
\* the opening of the repository in run_iterative_improvements,
\* evaluate_iterations or generate_intelligence_report) it returns the map
\* {"error": str(e), "status": "failed"}; otherwise it returns the report,
\* and this includes the runs in which a failure was caught inside a step
\* (a process collector, the candidate generation, an iteration's branch,
\* changes, tests, checkout or branch deletion).
C22_FailurePayloadOrReport ==
    LoopFinished =>
        /\ pc = "loop_returned"
        /\ IF exception # "none"
           THEN ret = [error |-> exception, status |-> "failed"]
           ELSE IsReport(ret)

\* the repository could not be opened and the failed payload was returned
C22_Witness ==
    /\ LoopFinished
    /\ pc = "loop_returned"
    /\ exception = "git.Repo failed"
    /\ ret = [error |-> "git.Repo failed", status |-> "failed"]

---------------------------------------------------------------------------
(* CodeMetricsAnalyzer._parse_analysis_response (analyzer.py). The       *)
(* response is a Python string, modelled as the sequence of its           *)
(* characters; find, rfind, slicing, json.loads, split, strip, lower and  *)
(* startswith are computed on the characters.                             *)

\* the response is made of at most MaxResponse fragments
MaxResponse == 4

\* performance_score = 75  # Default
DefaultPerformance == 75
\* quality_score = 80
DefaultQuality == 80
\* security_score = 85
DefaultSecurity == 85

\* str.find(c): the 0-based index of the first c, or -1
find(s, c) ==
    IF \E k \in 1..Len(s) : s[k] = c
    THEN (CHOOSE k \in 1..Len(s) : s[k] = c /\ \A j \in 1..(k - 1) : s[j] # c) - 1
    ELSE -1

\* str.rfind(c): the 0-based index of the last c, or -1
rfind(s, c) ==
    IF \E k \in 1..Len(s) : s[k] = c
    THEN (CHOOSE k \in 1..Len(s) : s[k] = c /\ \A j \in (k + 1)..Len(s) : s[j] # c) - 1
    ELSE -1

\* s[start:end] for 0 <= start <= end <= len(s)
Slice(s, start, end) == SubSeq(s, start + 1, end)

(* json.loads on the characters the responses are made of: objects,      *)
(* strings, numbers, and white space between the tokens. A position is   *)
(* 1-based; 0 stands for json.JSONDecodeError.                            *)

JsonWhitespace == {" ", "\n"}
JsonDigits == {"1"}

RECURSIVE SkipWhitespace(_, _)
SkipWhitespace(s, p) ==
    IF p <= Len(s) /\ s[p] \in JsonWhitespace THEN SkipWhitespace(s, p + 1) ELSE p

At(s, p, c) == p >= 1 /\ p <= Len(s) /\ s[p] = c

RECURSIVE StringEnd(_, _)
\* the position after the closing quote; a string holds no line break
StringEnd(s, p) ==
    IF p > Len(s) \/ s[p] = "\n" THEN 0
    ELSE IF s[p] = "\"" THEN p + 1
    ELSE StringEnd(s, p + 1)

ParseString(s, p) == IF At(s, p, "\"") THEN StringEnd(s, p + 1) ELSE 0

RECURSIVE DigitsEnd(_, _)
DigitsEnd(s, p) ==
    IF p <= Len(s) /\ s[p] \in JsonDigits THEN DigitsEnd(s, p + 1) ELSE p

ParseNumber(s, p) ==
    LET q == IF At(s, p, "-") THEN p + 1 ELSE p
    IN  IF DigitsEnd(s, q) > q THEN DigitsEnd(s, q) ELSE 0

RECURSIVE ParseValue(_, _)
RECURSIVE ParseMembers(_, _)

ParseObject(s, p) ==
    LET q == SkipWhitespace(s, p + 1)
    IN  IF At(s, q, "}") THEN q + 1 ELSE ParseMembers(s, q)

\* "key": value, then a comma and more members, or the closing brace
ParseMembers(s, p) ==
    LET k == ParseString(s, p)
        c == SkipWhitespace(s, k)
        v == IF k # 0 /\ At(s, c, ":")
             THEN ParseValue(s, SkipWhitespace(s, c + 1)) ELSE 0
        e == SkipWhitespace(s, v)
    IN  IF v = 0 THEN 0
        ELSE IF At(s, e, ",") THEN ParseMembers(s, SkipWhitespace(s, e + 1))
        ELSE IF At(s, e, "}") THEN e + 1
        ELSE 0

ParseValue(s, p) ==
    IF At(s, p, "{") THEN ParseObject(s, p)
    ELSE IF At(s, p, "\"") THEN ParseString(s, p)
    ELSE ParseNumber(s, p)

RECURSIVE MembersOf(_, _, _)
\* the dict of a valid object: its keys, each with the text of its value;
\* a key given twice keeps its last value
MembersOf(s, p, parsed) ==
    IF At(s, p, "}") THEN parsed
    ELSE LET k == ParseString(s, p)
             c == SkipWhitespace(s, k)
             b == SkipWhitespace(s, c + 1)
             v == ParseValue(s, b)
             e == SkipWhitespace(s, v)
             member == Put(parsed, SubSeq(s, p + 1, k - 2), SubSeq(s, b, v - 1))
         IN  IF At(s, e, ",") THEN MembersOf(s, SkipWhitespace(s, e + 1), member)
             ELSE member

\* json.loads(json_str): [raised |-> json.JSONDecodeError or not, value]
json_loads(s) ==
    LET b == SkipWhitespace(s, 1)
        v == ParseValue(s, b)
    IN  IF v # 0 /\ SkipWhitespace(s, v) = Len(s) + 1
        THEN [raised |-> FALSE,
              value |-> IF At(s, b, "{")
                        THEN MembersOf(s, SkipWhitespace(s, b + 1), EmptyMap)
                        ELSE EmptyMap]
        ELSE [raised |-> TRUE, value |-> EmptyMap]

(* _extract_scores_from_text *)

RECURSIVE split(_, _)
\* str.split(sep)
split(s, sep) ==
    IF find(s, sep) = -1 THEN <<s>>
    ELSE <<Slice(s, 0, find(s, sep))>> \o split(Slice(s, find(s, sep) + 1, Len(s)), sep)

RECURSIVE strip(_)
\* str.strip()
strip(s) ==
    IF s # <<>> /\ Head(s) \in JsonWhitespace THEN strip(Tail(s))
    ELSE IF s # <<>> /\ s[Len(s)] \in JsonWhitespace THEN strip(SubSeq(s, 1, Len(s) - 1))
    ELSE s

\* the character U+2022 is written "U+2022"
Bullets == {"U+2022", "-", "*"}

finding == <<"f", "i", "n", "d", "i", "n", "g">>
issue == <<"i", "s", "s", "u", "e">>
recommend == <<"r", "e", "c", "o", "m", "m", "e", "n", "d">>
suggest == <<"s", "u", "g", "g", "e", "s", "t">>

\* the section after one more line
SectionAfter(current_section, line) ==
    IF Contains(Lower(line), finding) \/ Contains(Lower(line), issue) THEN "findings"
    ELSE IF Contains(Lower(line), recommend) \/ Contains(Lower(line), suggest)
         THEN "recommendations"
    ELSE current_section

\* the line is a bullet that is appended to the list of section
Appends(current_section, line, section) ==
    /\ SectionAfter(current_section, line) = current_section
    /\ ~(Contains(Lower(line), finding) \/ Contains(Lower(line), issue))
    /\ ~(Contains(Lower(line), recommend) \/ Contains(Lower(line), suggest))
    /\ line # <<>>
    /\ Head(line) \in Bullets
    /\ current_section = section

RECURSIVE Collected(_, _, _)
\* the loop over the lines: the bullets appended to the list of section
Collected(lines, current_section, section) ==
    IF lines = <<>> THEN <<>>
    ELSE LET line == strip(Head(lines))
         IN  (IF Appends(current_section, line, section)
              THEN <<strip(Tail(line))>> ELSE <<>>)
             \o Collected(Tail(lines), SectionAfter(current_section, line), section)

AnalysisCompleted == <<"A", "n", "a", "l", "y", "s", "i", "s", " ", "c", "o", "m", "p", "l", "e", "t", "e", "d", " ", "s", "u", "c", "c", "e", "s", "s", "f", "u", "l", "l", "y">>
ContinueBestPractices == <<"C", "o", "n", "t", "i", "n", "u", "e", " ", "f", "o", "l", "l", "o", "w", "i", "n", "g", " ", "b", "e", "s", "t", " ", "p", "r", "a", "c", "t", "i", "c", "e", "s">>

\* x or default, for lists
Or(x, default) == IF x # <<>> THEN x ELSE default

_extract_scores_from_text(text, data_size, clock) ==
    LET lines == split(text, "\n")
    IN  [performance_score |-> DefaultPerformance,
         quality_score |-> DefaultQuality,
         security_score |-> DefaultSecurity,
         key_findings |-> Or(Collected(lines, "None", "findings"),
                             <<AnalysisCompleted>>),
         recommendations |-> Or(Collected(lines, "None", "recommendations"),
                                <<ContinueBestPractices>>),
         metrics |-> [analysis_type |-> "text_parsed",
                      original_data_size |-> data_size],
         timestamp |-> clock]

\* AnalysisResult(performance_score=parsed.get('performance_score', 0), ...):
\* the values of the object, as their JSON text
FromJson(parsed, clock) ==
    [performance_score |-> Get(parsed, <<"p", "e", "r", "f", "o", "r", "m", "a", "n", "c", "e", "_", "s", "c", "o", "r", "e">>, <<"0">>),
     quality_score |-> Get(parsed, <<"q", "u", "a", "l", "i", "t", "y", "_", "s", "c", "o", "r", "e">>, <<"0">>),
     security_score |-> Get(parsed, <<"s", "e", "c", "u", "r", "i", "t", "y", "_", "s", "c", "o", "r", "e">>, <<"0">>),
     key_findings |-> Get(parsed, <<"k", "e", "y", "_", "f", "i", "n", "d", "i", "n", "g", "s">>, <<>>),
     recommendations |-> Get(parsed, <<"r", "e", "c", "o", "m", "m", "e", "n", "d", "a", "t", "i", "o", "n", "s">>, <<>>),
     metrics |-> Get(parsed, <<"d", "e", "t", "a", "i", "l", "e", "d", "_", "m", "e", "t", "r", "i", "c", "s">>, <<>>),
     timestamp |-> clock]

\* mutant: the decode error is not caught
OnJSONDecodeError_propagated(text, data_size, clock) ==
    [raised |-> TRUE, path |-> "none",
     value |-> _extract_scores_from_text(<<>>, data_size, clock)]

\* except json.JSONDecodeError: return self._extract_scores_from_text(...)
OnJSONDecodeError(text, data_size, clock) ==
    [raised |-> FALSE, path |-> "text",
     value |-> _extract_scores_from_text(text, data_size, clock)]

\* if start_idx >= 0 and end_idx > start_idx
HasSpan(start_idx, end_idx) == start_idx >= 0 /\ end_idx > start_idx

\* [raised, path, value]: whether the call raised, the branch that built
\* the result, and the AnalysisResult
_parse_analysis_response(ai_response, data_size, clock) ==
    LET start_idx == find(ai_response, "{")
        end_idx == rfind(ai_response, "}") + 1
    IN  IF HasSpan(start_idx, end_idx)
        THEN LET loaded == json_loads(Slice(ai_response, start_idx, end_idx))
             IN  IF loaded.raised
                 THEN OnJSONDecodeError(ai_response, data_size, clock)
                 ELSE [raised |-> FALSE, path |-> "json",
                       value |-> FromJson(loaded.value, clock)]
        ELSE [raised |-> FALSE, path |-> "text",
              value |-> _extract_scores_from_text(ai_response, data_size, clock)]

\* the fragments the responses are made of
Fragments == {
    <<"{">>, <<"}">>, <<",">>,
    <<"\"", "a", "\"", ":", "1">>,
    <<"F", "i", "n", "d", "i", "n", "g", "\n">>,
    <<"r", "e", "c", "o", "m", "m", "e", "n", "d", "\n">>,
    <<"-", " ", "x", "\n">> }

RECURSIVE Concat(_)
Concat(fragments) ==
    IF fragments = <<>> THEN <<>> ELSE Head(fragments) \o Concat(Tail(fragments))

Responses ==
    { Concat(fragments) :
        fragments \in UNION { [1..n -> Fragments] : n \in 0..MaxResponse } }

\* len(str(original_data)) of the empty dict
EmptyDataSize == 2

call_parse_analysis_response ==
    /\ pc = "idle"
    /\ \E ai_response \in Responses :
        /\ arg' = ai_response
        /\ ret' = _parse_analysis_response(ai_response, EmptyDataSize, now)
    /\ op' = "_parse_analysis_response"
    /\ pc' = "returned"
    /\ UNCHANGED <<engine_vars, now, audit_vars, error_vars,
                   optimize_vars>>

AnalyzerNext == call_parse_analysis_response

AnalyzerSpec == Init /\ [][AnalyzerNext]_vars

---------------------------------------------------------------------------
(* Properties of _parse_analysis_response *)

Parsed == op = "_parse_analysis_response" /\ pc = "returned"

Positions(s, c) == { k \in 1..Len(s) : s[k] = c }

\* the response holds no '{' ... '}' pair: no opening brace, no closing
\* brace, or the last closing brace before the first opening brace
NoBracePair(s) ==
    \/ Positions(s, "{") = {}
    \/ Positions(s, "}") = {}
    \/ \A o \in Positions(s, "{") : \A c \in Positions(s, "}") : c < o

\* the span from the first '{' to the last '}'
BraceSpan(s) ==
    LET first == CHOOSE o \in Positions(s, "{") : \A k \in Positions(s, "{") : o <= k
        last == CHOOSE c \in Positions(s, "}") : \A k \in Positions(s, "}") : k <= c
    IN  SubSeq(s, first, last)

\* C23: for a response that holds no '{' ... '}' pair, or whose span from
\* the first '{' to the last '}' is not valid JSON, _parse_analysis_response
\* does not raise and returns the AnalysisResult of the text heuristic
\* (default scores, metrics of type text_parsed), whose key_findings and
\* recommendations are not empty.
C23_FallbackToTextHeuristic ==
    Parsed /\ (NoBracePair(arg) \/ json_loads(BraceSpan(arg)).raised) =>
        /\ ~ret.raised
        /\ ret.path = "text"
        /\ ret.value.metrics.analysis_type = "text_parsed"
        /\ ret.value.performance_score = DefaultPerformance
        /\ ret.value.key_findings # <<>>
        /\ ret.value.recommendations # <<>>

\* a brace span that is not valid JSON, with a finding collected from a
\* bullet of the text
C23_Witness ==
    /\ Parsed
    /\ ~NoBracePair(arg)
    /\ json_loads(BraceSpan(arg)).raised
    /\ ~ret.raised
    /\ ret.value.key_findings = <<<<"x">>>>
    /\ ret.value.recommendations = <<ContinueBestPractices>>

---------------------------------------------------------------------------
(* Properties of run_iterative_improvements: the working tree, the order  *)
(* of the steps and the scores                                            *)

\* C24: each candidate is tested on an isolated branch: when the tests of
\* iteration i run, the working tree holds the changes of no earlier
\* iteration, and after run_iterative_improvements has returned it holds
\* no changes at all.
C24_IsolatedBranches ==
    Running =>
        /\ pc \in {"test", "score"} => working_tree \subseteq {i}
        /\ pc = "done" => working_tree = {}

\* the score recorded for iteration k is the score of its own test results
ScoredFromOwnResults(k) ==
    iteration_results[k].success_score
        = _calculate_success_score(iteration_results[k].test_results)

\* C25: the iterations of a run execute one after another, each in the
\* order branch creation, change application, tests, score, cleanup: the
\* tests of an iteration run only after its scratch branch was checked out
\* and its changes were applied, its score is computed from its own test
\* results, and the scratch branch of the next candidate is created only
\* after the checkout of the original branch for the previous one.
C25_StepOrder ==
    Running =>
        /\ Len(attempts) = i
        /\ \A k \in 1..Len(attempts) :
            /\ k < i => attempts[k].checkout = "ok"
            /\ attempts[k].apply # "none" => attempts[k].branch = "ok"
            /\ attempts[k].tests # "none" =>
                    attempts[k].branch = "ok" /\ attempts[k].apply = "ok"
            /\ attempts[k].checkout # "none" =>
                    /\ k <= Len(iteration_results)
                    /\ attempts[k].tests # "none" => ScoredFromOwnResults(k)
            /\ attempts[k].delete # "none" => attempts[k].checkout = "ok"

\* C26: the score of an IterationResult of a run depends only on the
\* outcome of the test subprocess: 1.0 for exit code 0 (recorded as 10 passed
\* and 2 errors fixed), 0.0 for a non-zero exit (recorded as 3 failed and 1
\* new error), a timeout, a subprocess that cannot be launched, and a failure
\* before the tests; a timeout does not end the run.
C26_ScoreByOutcome ==
    Running =>
        \A k \in 1..Len(iteration_results) :
            LET result == iteration_results[k]
                outcome == attempts[k].tests
            IN  /\ result.success_score = IF outcome = "exit0" THEN One ELSE Zero
                /\ outcome = "exit0" =>
                        /\ result.test_results["tests_passed"] = SimulatedPassed
                        /\ result.errors_fixed = SimulatedFixed
                /\ outcome = "nonzero" =>
                        /\ result.test_results["tests_failed"] = SimulatedFailed
                        /\ result.new_errors_introduced = 1
                /\ (outcome = "timeout" /\ pc = "done"
                        /\ \A j \in 1..Len(attempts) : attempts[j].checkout = "ok") =>
                        Len(iteration_results) = IterationCount(candidates)

\* the tests of the first iteration timed out and the second iteration
\* scored 1.0
C26_Witness ==
    /\ Running
    /\ pc = "done"
    /\ Len(iteration_results) = 2
    /\ attempts[1].tests = "timeout"
    /\ iteration_results[1].success_score = Zero
    /\ attempts[2].tests = "exit0"
    /\ iteration_results[2].success_score = One

---------------------------------------------------------------------------
(* OptimizationEngine.optimize_ecosystem (module_implementation.py), on  *)
(* the DatabaseAuditTrail the factory gives it. The feedback collector,   *)
(* the pattern analyzer, the optimization generator and the optimization  *)
(* tester are injected: what they return, and whether they raise, is      *)
(* chosen freely. The metrics and notification sinks are taken not to     *)
(* raise, and total_duration is left out of the response.                 *)

\* the prioritized list of an analysis holds at most MaxAnalyzed patterns
MaxAnalyzed == 3
\* request.max_iterations ranges over 1..MaxRequested
MaxRequested == 3

RMul(a, b) == Rat(a[1] * b[1], a[2] * b[2])
RDiv(a, b) == Rat(a[1] * b[2], a[2] * b[1])

\* _initialize_optimization_thresholds
optimization_thresholds ==
    [performance |-> [minimum_value |-> Rat(5, 100), target_value |-> Rat(20, 100)],
     quality |-> [minimum_value |-> Rat(70, 100), target_value |-> Rat(85, 100)],
     reliability |-> [minimum_value |-> Rat(80, 100), target_value |-> Rat(95, 100)]]

performance_metrics == {"response_time", "memory_usage", "cpu_utilization", "error_rate"}

\* max_acceptable_regression = -0.05
_has_performance_regression(tr) ==
    \E metric \in performance_metrics :
        metric \in DOMAIN tr /\ RLt(tr[metric], Rat(-5, 100))

\* tests_passed is a bool in the test results of the model
validate_optimization_result(pattern, strategy, tr) ==
    IF ~Get(tr, "tests_passed", FALSE) THEN FALSE
    ELSE IF RLt(Get(tr, "performance_improvement", Zero),
                optimization_thresholds.performance.minimum_value) THEN FALSE
    ELSE IF RLt(Get(tr, "quality_score", Zero),
                optimization_thresholds.quality.minimum_value) THEN FALSE
    ELSE LET test_success_rate ==
                IF "test_success_rate" \in DOMAIN tr
                THEN tr["test_success_rate"]
                ELSE IF Get(tr, "tests_passed", FALSE) THEN One ELSE Zero
         IN  IF RLt(test_success_rate,
                    optimization_thresholds.reliability.minimum_value) THEN FALSE
             ELSE ~_has_performance_regression(tr)

_calculate_performance_score(tr) ==
    LET performance_improvement == Get(tr, "performance_improvement", Zero)
        performance_threshold == optimization_thresholds.performance
    IN  IF RLe(performance_threshold.target_value, performance_improvement) THEN One
        ELSE IF RLe(performance_threshold.minimum_value, performance_improvement)
        THEN RMul(RDiv(RSub(performance_improvement, performance_threshold.minimum_value),
                       RSub(performance_threshold.target_value,
                            performance_threshold.minimum_value)),
                  Rat(8, 10))
        ELSE Zero

\* isinstance(tests_passed, bool)
_calculate_reliability_score(tr) ==
    IF Get(tr, "tests_passed", FALSE) THEN One ELSE Zero

\* business_logic.calculate_success_score
calculate_success_score(pattern, tr) ==
    RMin(RAdd(RAdd(RMul(_calculate_performance_score(tr), Rat(40, 100)),
                   RMul(Get(tr, "quality_score", Zero), Rat(30, 100))),
              RAdd(RMul(_calculate_reliability_score(tr), Rat(20, 100)),
                   RMul(Get(pattern, "confidence", Float(Zero)).n, Rat(10, 100)))),
         One)

\* the values of ComponentType
ComponentTypeChars == {framework, codecreate, codereview, codetest, <<"c", "o", "d", "e", "m", "e", "t", "r", "i", "c", "s">>}

\* OptimizationPattern.from_dict(pattern) raises ValueError: the component
\* of the dict is the value of no ComponentType
FromDictRaises(pattern) ==
    Get(pattern, "component", Str(<<"u", "n", "k", "n", "o", "w", "n">>)).s \notin ComponentTypeChars

\* the fields of the dataclass OptimizationResult that have no default
OptimizationResultFields ==
    {"result_id", "request_id", "iteration", "pattern", "strategy",
     "test_results", "success_score", "branch_name", "timestamp"}

\* OptimizationResult(**kwargs): [raised |-> TypeError or not, value]
OptimizationResult(kwargs) ==
    [raised |-> ~(OptimizationResultFields \subseteq DOMAIN kwargs),
     value |-> kwargs]

\* OptimizationResult.to_dict, of the fields the response is read for
Result_to_dict(self) ==
    [iteration |-> self.iteration,
     success_score |-> self.success_score,
     branch_name |-> self.branch_name,
     test_results |-> self.test_results]

\* mutant: the except branch of the loop does not count the failure
OnIterationError_uncounted(k, message) ==
    [results |-> <<>>, success_count |-> 0, failure_count |-> 0,
     attempts |-> <<[iteration |-> k, status |-> "error", error |-> message]>>]

\* except Exception as iteration_error: what the iteration adds to the
\* results, to the counts and to the audit trail
OnIterationError(k, message) ==
    [results |-> <<>>, success_count |-> 0, failure_count |-> 1,
     attempts |-> <<[iteration |-> k, status |-> "error", error |-> message]>>]

\* what the collaborators do in one iteration: the step that raises
\* ("none" if none) and the test results
Parts(key, values) == {EmptyMap} \cup { key :> v : v \in values }

TestResultsDicts ==
    { ("tests_passed" :> p) @@ a @@ ("quality_score" :> q) @@ s @@ r :
        p \in BOOLEAN,
        a \in Parts("performance_improvement", {Rat(1, 10), Rat(1, 5)}),
        q \in {Half, Rat(9, 10)},
        s \in Parts("test_success_rate", {Half}),
        r \in Parts("response_time", {Rat(-1, 10)}) }

IterationInputs ==
    [raises : {"strategy generation failed", "branch creation failed",
               "test run failed"},
     test_results : {EmptyMap}]
    \cup [raises : {"none"}, test_results : TestResultsDicts]

\* the body of the for loop for iteration k (iteration + 1)
IterationBody(pattern, k, input, clock) ==
    IF input.raises # "none" THEN OnIterationError(k, input.raises)
    ELSE IF validate_optimization_result(pattern, [strategy_id |-> k],
                                         input.test_results)
    THEN LET score == calculate_success_score(pattern, input.test_results)
             result == OptimizationResult(
                [iteration |-> k,
                 pattern |-> pattern,
                 strategy |-> [strategy_id |-> k],
                 test_results |-> input.test_results,
                 success_score |-> score,
                 branch_name |-> k,
                 timestamp |-> clock])
         IN  IF FromDictRaises(pattern) THEN OnIterationError(k, "ValueError")
             ELSE IF result.raised
             THEN OnIterationError(k, "TypeError: missing result_id, request_id")
             ELSE [results |-> <<Result_to_dict(result.value)>>,
                   success_count |-> IF RLt(Rat(7, 10), score) THEN 1 ELSE 0,
                   failure_count |-> IF RLt(Rat(7, 10), score) THEN 0 ELSE 1,
                   attempts |-> <<[iteration |-> k, status |-> "success",
                                   score |-> score]>>]
    ELSE [results |-> <<>>, success_count |-> 0, failure_count |-> 1,
          attempts |-> <<[iteration |-> k, status |-> "failed",
                          reason |-> "validation_failed"]>>]

\* the ghost record of an iteration
Outcome(pattern, k, input) ==
    [raises |-> input.raises,
     is_valid |-> input.raises = "none"
                    /\ validate_optimization_result(pattern, [strategy_id |-> k],
                                                    input.test_results),
     success_score |-> IF input.raises = "none"
                            /\ validate_optimization_result(pattern,
                                    [strategy_id |-> k], input.test_results)
                       THEN calculate_success_score(pattern, input.test_results)
                       ELSE Zero]

\* f"{request.request_id}_feedback"
FeedbackId == ("req_1" :> "req_1_feedback") @@ ("req_2" :> "req_2_feedback")

\* the patterns the analyzer returns: one that passes the business rules,
\* one whose confidence is too low, one whose confidence is not a number
AnalyzedPatterns ==
    {LoggedPattern(Rat(9, 10)),
     PatternDict(Float(Rat(7, 10)), Float(Rat(9, 10)), Float(Rat(1, 10)),
                 Str(codecreate), Str(<<"a", "d", "d", " ", "c", "a", "c", "h", "e">>)),
     PatternDict(Str(<<"h", "i", "g", "h">>), Float(Rat(9, 10)), Float(Rat(1, 10)),
                 Str(codecreate), Str(<<"a", "d", "d", " ", "c", "a", "c", "h", "e">>))}

PrioritizedLists == UNION { [1..n -> AnalyzedPatterns] : n \in 0..MaxAnalyzed }

\* the entries of the audit trail are numbered by the clock
Log(entries, request_id, action, actor, details, correlation_id) ==
    _store_audit_entry(entries,
        AuditEntry(now + 1, request_id, action, actor, details, correlation_id))

\* generate_final_recommendations, of which the first line is kept
generate_final_recommendations(results) ==
    IF results = <<>>
    THEN <<"No successful optimizations identified. Consider adjusting optimization criteria.">>
    ELSE <<"Optimizations identified">>

OptimizationResponse(request_id, results, successes, failures, recommendations, history) ==
    [request_id |-> request_id,
     status |-> "completed",
     results |-> results,
     success_count |-> successes,
     failure_count |-> failures,
     recommendations |-> recommendations,
     audit_trail |-> history]

\* what the actions of optimize_ecosystem leave alone
OptimizeFrame ==
    UNCHANGED <<arg, audit_file, calls, prev, instances, engine_vars, error_vars>>

\* log_optimization_start and the entry of _active_optimizations
call_optimize_ecosystem ==
    /\ pc = "idle"
    /\ \E request_id \in RequestIds, requested \in 1..MaxRequested :
        /\ optimize_request' = [Request(request_id) EXCEPT !.max_iterations = requested]
        /\ audit_entries' = Log(audit_entries, request_id,
                "optimization_started", "system",
                [components |-> Request(request_id).components,
                 max_iterations |-> requested,
                 priority_level |-> Request(request_id).priority_level,
                 requester |-> Request(request_id).requester,
                 configuration |-> Request(request_id).configuration],
                request_id)
        /\ _active_optimizations' = Put(_active_optimizations, request_id,
                [status |-> "running", iterations_completed |-> 0,
                 total_iterations |-> requested])
    /\ now' = now + 1
    /\ op' = "optimize_ecosystem"
    /\ pc' = "analyze"
    /\ UNCHANGED <<ret, storage, filtered_patterns, iteration, optimization_results,
                   success_count, failure_count, outcomes, raised_error>>
    /\ OptimizeFrame

\* feedback_analysis = await self.analyze_feedback_patterns(feedback_request)
AnalyzeFeedback ==
    /\ pc = "analyze"
    /\ \E prioritized \in PrioritizedLists :
        /\ ~filter_patterns_by_business_rules(prioritized).raised
        /\ filtered_patterns' = filter_patterns_by_business_rules(prioritized).value
    /\ pc' = "analyzed"
    /\ UNCHANGED <<op, ret, now, audit_entries, storage, optimize_request,
                   _active_optimizations, iteration, optimization_results,
                   success_count, failure_count, outcomes, raised_error>>
    /\ OptimizeFrame

\* a collaborator or a business rule raises: analyze_feedback_patterns logs
\* the failure under the id of the feedback request and raises again
AnalyzeFeedbackFails ==
    /\ pc = "analyze"
    /\ \/ raised_error' = "feedback collection failed"
       \/ /\ \E prioritized \in PrioritizedLists :
                filter_patterns_by_business_rules(prioritized).raised
          /\ raised_error' = "TypeError"
    /\ LET stored == Log(audit_entries, FeedbackId[optimize_request.request_id],
                         "optimization_completed", "optimization_engine",
                         [status |-> "failed", error |-> raised_error'], "None")
       IN  /\ audit_entries' = stored
           /\ storage' = _persist_audit_trail(stored, storage,
                                              FeedbackId[optimize_request.request_id])
    /\ now' = now + 1
    /\ pc' = "except"
    /\ UNCHANGED <<op, ret, optimize_request, _active_optimizations,
                   filtered_patterns, iteration,
                   optimization_results, success_count, failure_count, outcomes>>
    /\ OptimizeFrame

\* if not feedback_analysis.patterns: return OptimizationResponse(...)
EarlyReturn ==
    /\ pc = "analyzed"
    /\ filtered_patterns = <<>>
    /\ LET history == Database_get_audit_history(audit_entries, storage,
                                                 optimize_request.request_id)
       IN  /\ audit_entries' = history.entries
           /\ ret' = OptimizationResponse(optimize_request.request_id, <<>>, 0, 0,
                        <<"No optimization opportunities identified">>,
                        history.value)
    /\ pc' = "returned"
    /\ UNCHANGED <<op, now, storage, optimize_request, _active_optimizations, filtered_patterns,
                   iteration, optimization_results, success_count, failure_count,
                   outcomes, raised_error>>
    /\ OptimizeFrame

\* self.audit_trail.log_pattern_identification(...); the counters of step 2
LogPatterns ==
    /\ pc = "analyzed"
    /\ filtered_patterns # <<>>
    /\ audit_entries' = Log(audit_entries, optimize_request.request_id,
            "patterns_identified", "ai_analyzer",
            [pattern_count |-> Len(filtered_patterns),
             patterns |-> filtered_patterns,
             analysis_summary |-> _generate_pattern_summary(filtered_patterns)],
            "None")
    /\ now' = now + 1
    /\ optimization_results' = <<>>
    /\ success_count' = 0
    /\ failure_count' = 0
    /\ iteration' = 0
    /\ pc' = "iterate"
    /\ UNCHANGED <<op, ret, storage, optimize_request, _active_optimizations, filtered_patterns,
                   outcomes, raised_error>>
    /\ OptimizeFrame

\* for iteration in range(max_patterns): one pass of the loop
RunIteration ==
    /\ pc = "iterate"
    /\ iteration < Min(optimize_request.max_iterations, Len(filtered_patterns))
    /\ \E input \in IterationInputs :
        LET pattern == filtered_patterns[iteration + 1]
            body == IterationBody(pattern, iteration + 1, input, now)
        IN  /\ optimization_results' = optimization_results \o body.results
            /\ success_count' = success_count + body.success_count
            /\ failure_count' = failure_count + body.failure_count
            /\ audit_entries' = Log(audit_entries, optimize_request.request_id,
                    "optimization_attempt", "optimization_engine",
                    body.attempts[1], "None")
            /\ outcomes' = Append(outcomes, Outcome(pattern, iteration + 1, input))
    /\ _active_optimizations' =
            [_active_optimizations EXCEPT
                ![optimize_request.request_id].iterations_completed = iteration + 1]
    /\ iteration' = iteration + 1
    /\ now' = now + 1
    /\ UNCHANGED <<pc, op, ret, storage, optimize_request, filtered_patterns, raised_error>>
    /\ OptimizeFrame

\* steps 3 and after: the response, log_optimization_result, the removal
\* from _active_optimizations, return response
ReturnResponse ==
    /\ pc = "iterate"
    /\ ~(iteration < Min(optimize_request.max_iterations, Len(filtered_patterns)))
    /\ LET history == Database_get_audit_history(audit_entries, storage,
                                                 optimize_request.request_id)
           response == OptimizationResponse(optimize_request.request_id,
                            optimization_results, success_count, failure_count,
                            generate_final_recommendations(optimization_results),
                            history.value)
           stored == Log(history.entries, optimize_request.request_id,
                         "optimization_completed", "optimization_engine",
                         [status |-> response.status,
                          success_count |-> response.success_count,
                          failure_count |-> response.failure_count],
                         "None")
       IN  /\ ret' = response
           /\ audit_entries' = stored
           /\ storage' = _persist_audit_trail(stored, storage, optimize_request.request_id)
    /\ _active_optimizations' =
            [id \in DOMAIN _active_optimizations \ {optimize_request.request_id} |->
                _active_optimizations[id]]
    /\ now' = now + 1
    /\ pc' = "returned"
    /\ UNCHANGED <<op, optimize_request, filtered_patterns, iteration, optimization_results,
                   success_count, failure_count, outcomes, raised_error>>
    /\ OptimizeFrame

\* except Exception as e: log_optimization_result, the removal from
\* _active_optimizations, raise
ExceptAndRaise ==
    /\ pc = "except"
    /\ LET stored == Log(audit_entries, optimize_request.request_id,
                         "optimization_completed", "optimization_engine",
                         [status |-> "failed", error |-> raised_error], "None")
       IN  /\ audit_entries' = stored
           /\ storage' = _persist_audit_trail(stored, storage, optimize_request.request_id)
    /\ _active_optimizations' =
            [id \in DOMAIN _active_optimizations \ {optimize_request.request_id} |->
                _active_optimizations[id]]
    /\ now' = now + 1
    /\ pc' = "raised"
    /\ UNCHANGED <<op, ret, optimize_request, filtered_patterns, iteration, optimization_results,
                   success_count, failure_count, outcomes, raised_error>>
    /\ OptimizeFrame

\* get_optimization_status(request_id) after the run; an entry of the
\* history has no key "status"
get_optimization_status ==
    /\ pc \in {"returned", "raised"}
    /\ op = "optimize_ecosystem"
    /\ LET history == Database_get_audit_history(audit_entries, storage,
                                                 optimize_request.request_id)
       IN  IF optimize_request.request_id \in DOMAIN _active_optimizations
           THEN /\ ret' = _active_optimizations[optimize_request.request_id]
                /\ UNCHANGED audit_entries
           ELSE /\ audit_entries' = history.entries
                /\ ret' = IF history.value # <<>>
                          THEN [status |-> "unknown", completed |-> TRUE]
                          ELSE [status |-> "not_found"]
    /\ op' = "get_optimization_status"
    /\ pc' = IF pc = "returned" THEN "status_after_return" ELSE "status_after_raise"
    /\ UNCHANGED <<now, storage, optimize_request, _active_optimizations, filtered_patterns,
                   iteration, optimization_results, success_count, failure_count,
                   outcomes, raised_error>>
    /\ OptimizeFrame

OptimizeNext ==
    \/ call_optimize_ecosystem
    \/ AnalyzeFeedback
    \/ AnalyzeFeedbackFails
    \/ EarlyReturn
    \/ LogPatterns
    \/ RunIteration
    \/ ReturnResponse
    \/ ExceptAndRaise
    \/ get_optimization_status

OptimizeSpec == Init /\ [][OptimizeNext]_vars

(* Properties of optimize_ecosystem *)

\* optimize_ecosystem has returned a response or raised
OptimizeFinished ==
    /\ op \in {"optimize_ecosystem", "get_optimization_status"}
    /\ pc \in {"returned", "raised", "status_after_return", "status_after_raise"}

\* optimize_ecosystem has just returned its response, which ret holds
OptimizeReturned == op = "optimize_ecosystem" /\ pc = "returned"

\* the audit history of the request of the run
RequestHistory ==
    Database_get_audit_history(audit_entries, storage,
                               optimize_request.request_id).value

\* the optimization_attempt entries of iteration k in a history
AttemptsOf(history, k) ==
    { e \in 1..Len(history) :
        /\ history[e].action = "optimization_attempt"
        /\ history[e].details.iteration = k }

\* the iterations the loop runs
ExecutedIterations ==
    Min(optimize_request.max_iterations, Len(filtered_patterns))

\* C27: whenever optimize_ecosystem has finished for a request, by returning
\* on any path or by raising, the request id is not in _active_optimizations
\* and get_optimization_status does not report the request as "running".
\* The return for an analysis without patterns leaves the id in place.
C27_FinishedNotActive ==
    OptimizeFinished =>
        /\ optimize_request.request_id \notin DOMAIN _active_optimizations
        /\ op = "get_optimization_status" => ret.status # "running"

\* C28: once optimize_ecosystem has finished, the audit history of the
\* request starts with optimization_started, ends with
\* optimization_completed, and holds the patterns_identified and
\* optimization_attempt entries between the two. The return for an analysis
\* without patterns logs no optimization_completed entry.
C28_HistoryBracketed ==
    OptimizeFinished =>
        LET history == RequestHistory
        IN  /\ Len(history) >= 2
            /\ history[1].action = "optimization_started"
            /\ history[Len(history)].action = "optimization_completed"
            /\ \A e \in 2..(Len(history) - 1) :
                    history[e].action \in {"patterns_identified", "optimization_attempt"}

\* C29: in the response of a run that found patterns, success_count +
\* failure_count is the number of iterations executed, min(max_iterations,
\* number of filtered patterns), and the audit trail holds exactly one
\* optimization_attempt entry for each executed iteration and none for
\* another.
C29_CountsMatchIterations ==
    (OptimizeReturned /\ filtered_patterns # <<>>) =>
        /\ iteration = ExecutedIterations
        /\ ret.success_count + ret.failure_count = ExecutedIterations
        /\ \A k \in 1..ExecutedIterations :
                Cardinality(AttemptsOf(RequestHistory, k)) = 1
        /\ Cardinality({ e \in 1..Len(RequestHistory) :
                            RequestHistory[e].action = "optimization_attempt" })
                = ExecutedIterations

\* a response after two iterations or more, of which one raised and one
\* failed the validation
C29_Witness ==
    /\ OptimizeReturned
    /\ ExecutedIterations >= 2
    /\ ret.success_count + ret.failure_count = ExecutedIterations
    /\ \E e, f \in 1..Len(RequestHistory) :
        /\ RequestHistory[e].action = "optimization_attempt"
        /\ RequestHistory[e].details.status = "error"
        /\ RequestHistory[f].action = "optimization_attempt"
        /\ RequestHistory[f].details.status = "failed"

\* C30: for every iteration whose strategy generation, branch creation and
\* testing raise nothing and whose test results pass
\* validate_optimization_result, the results of the response hold one entry
\* of that iteration with its success score, and the audit trail records the
\* attempt of that iteration with status "success". The construction of
\* OptimizationResult without result_id and request_id raises TypeError.
C30_ValidIterationRecorded ==
    OptimizeReturned =>
        \A k \in 1..Len(outcomes) :
            outcomes[k].is_valid =>
                /\ Cardinality({ e \in 1..Len(ret.results) :
                        /\ ret.results[e].iteration = k
                        /\ ret.results[e].success_score = outcomes[k].success_score })
                        = 1
                /\ \E e \in AttemptsOf(RequestHistory, k) :
                        RequestHistory[e].details.status = "success"

=============================================================================
